---- MODULE Spec2Model ----
(***************************************************************************)
(* A model of the content acquisition engine of newstui: the retrying      *)
(* fetcher, the scraped-site and feed adapters, the article extractor and  *)
(* the TTL disk cache.                                                     *)
(***************************************************************************)
EXTENDS Integers, Sequences, FiniteSets, TLC

VARIABLES
    fetch,      \* per call of _retryable_fetch: its locals and what it did
    op,         \* the adapter operation in progress, its input and result
    files,      \* the cache directory: the content of the file of each key
    clock,      \* time.time()
    last,       \* per key, the entry the last undisturbed set left (history)
    task        \* per task using the cache: its operation and its locals

vars == <<fetch, op, files, clock, last, task>>
\* what the fetcher and the adapters leave alone, and what the cache does
cacheVars == <<files, clock, last, task>>
adapterVars == <<fetch, op>>
\* the cache is not part of a run of the fetcher or of an adapter alone
CacheUnused == files = <<>> /\ clock = 0 /\ last = <<>> /\ task = <<>>

(***************************************************************************)
(* Bounds of the model.                                                    *)
(***************************************************************************)
NumCalls == 2
MaxAttempts == 4

(***************************************************************************)
(* Program constants (config.py).                                          *)
(***************************************************************************)
RETRY_ATTEMPTS == 4
\* INITIAL_RETRY_DELAY = 0.5 seconds, in milliseconds
INITIAL_RETRY_DELAY == 500
MIN_ARTICLE_WORDS == 15

Calls == 1..NumCalls

(***************************************************************************)
(* The transport: what one session.get(url, timeout) can end in.           *)
(*   a response with a status and a body, a request-level error            *)
(*   (requests.RequestException: connection error, timeout, ...), or an    *)
(*   exception of another type.                                            *)
(***************************************************************************)
Statuses == {200, 204, 304, 404, 503}
Bodies == {"empty", "doc"}
Outcomes ==
    [kind : {"response"}, status : Statuses, body : Bodies]
    \cup [kind : {"neterr", "other"}, status : {0}, body : {"empty"}]

\* resp.raise_for_status(): HTTPError (a RequestException) for 4xx and 5xx
RaisesForStatus(status) == status >= 400 /\ status < 600

\* the except requests.RequestException clause: which outcomes it catches
IsRequestException(o) ==
    \/ o.kind = "neterr"
    \/ o.kind = "response" /\ RaisesForStatus(o.status)

FetchIdle ==
    [pc |-> "idle", attempts |-> 0, attempt |-> 0, delay |-> 0,
     requests |-> 0, failures |-> 0, sleeps |-> <<>>, result |-> "none",
     status |-> 0]

\* a plausible slip: range(0, attempts + 1), one pass too many
FetchStart_fromZero(n) ==
    [pc |-> "attempt",
     attempts |-> n, attempt |-> 0, delay |-> INITIAL_RETRY_DELAY,
     requests |-> 0, failures |-> 0, sleeps |-> <<>>, result |-> "none",
     status |-> 0]

\* a plausible slip: the delay kept on the instance, where the calls running
\* at the same time double it for each other
FetchStart_sharedDelay(n) ==
    [pc |-> IF n >= 1 THEN "attempt" ELSE "returned",
     attempts |-> n, attempt |-> 1,
     delay |-> IF \E d \in Calls : fetch[d].delay > INITIAL_RETRY_DELAY
               THEN 2 * INITIAL_RETRY_DELAY ELSE INITIAL_RETRY_DELAY,
     requests |-> 0, failures |-> 0, sleeps |-> <<>>, result |-> "none",
     status |-> 0]

\* entry of _retryable_fetch: delay = INITIAL_RETRY_DELAY, then the for loop
\* over range(1, attempts + 1); an empty range falls to the final return None
FetchStart(n) ==
    [pc |-> IF n >= 1 THEN "attempt" ELSE "returned",
     attempts |-> n, attempt |-> 1, delay |-> INITIAL_RETRY_DELAY,
     requests |-> 0, failures |-> 0, sleeps |-> <<>>, result |-> "none",
     status |-> 0]

\* a plausible slip: giving up one attempt early
OnRequestException_early(f) ==
    IF f.attempt + 1 >= f.attempts
    THEN [f EXCEPT !.pc = "returned", !.result = "none",
                   !.requests = @ + 1, !.failures = @ + 1]
    ELSE [f EXCEPT !.pc = "sleep", !.requests = @ + 1, !.failures = @ + 1]

\* the except branch: return None at the last attempt, else go to sleep
OnRequestException(f) ==
    IF f.attempt = f.attempts
    THEN [f EXCEPT !.pc = "returned", !.result = "none",
                   !.requests = @ + 1, !.failures = @ + 1]
    ELSE [f EXCEPT !.pc = "sleep", !.requests = @ + 1, !.failures = @ + 1]

\* a plausible slip: the response is kept but the loop goes on
OnResponse_noReturn(f, o) ==
    [f EXCEPT !.pc = IF f.attempt = f.attempts THEN "returned" ELSE "sleep",
              !.result = o.body, !.requests = @ + 1, !.status = o.status]

\* return resp.content; status: the status of the response it came with
OnResponse(f, o) ==
    [f EXCEPT !.pc = "returned", !.result = o.body, !.requests = @ + 1,
              !.status = o.status]

\* an exception the except clause does not name leaves the function
OnOtherException(f) ==
    [f EXCEPT !.pc = "raised", !.requests = @ + 1]

\* one pass of the loop body: session.get, raise_for_status, return / except
AttemptStep(f, o) ==
    IF IsRequestException(o) THEN OnRequestException(f)
    ELSE IF o.kind = "response" THEN OnResponse(f, o)
    ELSE OnOtherException(f)

\* a plausible slip: the delay is not doubled
SleepStep_noDoubling(f) ==
    [f EXCEPT !.pc = "attempt", !.sleeps = Append(@, f.delay),
              !.attempt = @ + 1]

\* time.sleep(delay); delay *= 2; next iteration
SleepStep(f) ==
    [f EXCEPT !.pc = "attempt", !.sleeps = Append(@, f.delay),
              !.delay = 2 * @, !.attempt = @ + 1]

FetchDone(f) == f.pc \in {"returned", "raised"}

(***************************************************************************)
(* Actions of the fetcher alone: any number of calls, run concurrently.    *)
(***************************************************************************)
FetchCall(c) ==
    /\ fetch[c].pc = "idle"
    /\ \E n \in 0..MaxAttempts : fetch' = [fetch EXCEPT ![c] = FetchStart(n)]
    /\ UNCHANGED <<op, cacheVars>>

FetchAttempt(c) ==
    /\ fetch[c].pc = "attempt"
    /\ \E o \in Outcomes : fetch' = [fetch EXCEPT ![c] = AttemptStep(@, o)]
    /\ UNCHANGED <<op, cacheVars>>

FetchSleep(c) ==
    /\ fetch[c].pc = "sleep"
    /\ fetch' = [fetch EXCEPT ![c] = SleepStep(@)]
    /\ UNCHANGED <<op, cacheVars>>

\* the call is over; the next call of the same task starts afresh
FetchFinish(c) ==
    /\ FetchDone(fetch[c])
    /\ fetch' = [fetch EXCEPT ![c] = FetchIdle]
    /\ UNCHANGED <<op, cacheVars>>

NoOp == [name |-> "none"]

InitFetch ==
    /\ fetch = [c \in Calls |-> FetchIdle]
    /\ op = NoOp
    /\ CacheUnused

NextFetch ==
    \E c \in Calls :
        FetchCall(c) \/ FetchAttempt(c) \/ FetchSleep(c) \/ FetchFinish(c)

SpecFetch == InitFetch /\ [][NextFetch]_vars

\* every session.get ends, by its timeout at the latest, and every time.sleep
\* ends: a call that can take its next step takes it
FetchFairness ==
    \A c \in Calls : WF_vars(FetchAttempt(c)) /\ WF_vars(FetchSleep(c))

SpecFetchLive == InitFetch /\ [][NextFetch]_vars /\ FetchFairness

(***************************************************************************)
(* Text.  A string is a sequence of one-character strings, so that         *)
(* str.strip, str.replace and get_text act on it as they do in the code.   *)
(***************************************************************************)
None == <<"None">>
SP == " "

NL == "\n"
\* the characters str.strip() removes
Whitespace == {SP, NL}

RECURSIVE LStrip(_)
LStrip(s) == IF s # <<>> /\ Head(s) \in Whitespace THEN LStrip(Tail(s)) ELSE s

RECURSIVE RStrip(_)
RStrip(s) ==
    IF s # <<>> /\ s[Len(s)] \in Whitespace
    THEN RStrip(SubSeq(s, 1, Len(s) - 1)) ELSE s

\* str.strip()
Strip(s) == RStrip(LStrip(s))

\* str.replace(sub, ""): every non-overlapping occurrence, left to right;
\* replacing the empty string by the empty string changes nothing
RECURSIVE Replace(_, _)
Replace(s, sub) ==
    IF sub = <<>> \/ Len(s) < Len(sub) THEN s
    ELSE IF SubSeq(s, 1, Len(sub)) = sub
         THEN Replace(SubSeq(s, Len(sub) + 1, Len(s)), sub)
         ELSE <<Head(s)>> \o Replace(Tail(s), sub)

\* get_text(sep, strip=True): the stripped, non-empty strings joined by sep
RECURSIVE GetText(_, _)
GetText(pieces, sep) ==
    IF pieces = <<>> THEN <<>>
    ELSE LET h == Strip(Head(pieces))
             t == GetText(Tail(pieces), sep)
         IN IF h = <<>> THEN t
            ELSE IF t = <<>> THEN h
            ELSE h \o sep \o t

(***************************************************************************)
(* URLs.  An href is a base (empty when the href is relative) and a path.  *)
(***************************************************************************)
DOMAIN_BASE == "https://www.cbc.ca"
NoHref == [base |-> "", path |-> ""]

\* _abs_url: "" for an empty href, an absolute href unchanged, a relative
\* one joined to DOMAIN_BASE
AbsUrl(href) ==
    IF href = NoHref THEN NoHref
    ELSE IF href.base # "" THEN href
    ELSE [base |-> DOMAIN_BASE, path |-> href.path]

\* the selector a[href*='/lite/story/']
IsStoryHref(href) == href.path \in {"/lite/story/1", "/lite/story/2"}

(***************************************************************************)
(* Listing documents: the sibling elements of a section page, anchors and  *)
(* paragraphs.  An anchor holds its strings in document order; spanAt is   *)
(* the place of the string inside its first span element, 0 if none.       *)
(***************************************************************************)
MaxElems == 3

Anchor(href, pieces, spanAt) ==
    [tag |-> "a", href |-> href, pieces |-> pieces, spanAt |-> spanAt]
Para(text) ==
    [tag |-> "p", href |-> NoHref, pieces |-> <<text>>, spanAt |-> 0]

ElemPool ==
    { Anchor([base |-> "", path |-> "/lite/story/1"],
             << <<"N">>, <<"T", "1">> >>, 1),
      Anchor([base |-> DOMAIN_BASE, path |-> "/lite/story/1"],
             << <<"T", "2">> >>, 0),
      Anchor([base |-> "", path |-> "/lite/story/1"], << <<"N">> >>, 1),
      Anchor([base |-> "", path |-> "/lite/story/2"],
             << <<"O", "N">>, <<"N">> >>, 2),
      Anchor([base |-> "", path |-> "/lite/world"], << <<"W">> >>, 0),
      Para(<<"S">>) }

Listings ==
    [elems : UNION {[1..n -> ElemPool] : n \in 0..MaxElems},
     parseRaises : BOOLEAN]

Urls == {AbsUrl(e.href) : e \in {x \in ElemPool : IsStoryHref(x.href)}}
\* the caller's read set and bookmark records
ReadSets == {{}, {[base |-> DOMAIN_BASE, path |-> "/lite/story/1"]}}
BookmarkLists == {<<>>, <<[url |-> [base |-> DOMAIN_BASE, path |-> "/lite/story/2"]]>>}

\* span.get_text(strip=True) if span else None
FlagOf(a) == IF a.spanAt = 0 THEN None ELSE Strip(a.pieces[a.spanAt])

\* a.get_text(" ", strip=True).replace(flag or "", "").strip()
TitleOf(a) ==
    LET flag == FlagOf(a)
    IN Strip(Replace(GetText(a.pieces, <<SP>>), IF flag = None THEN <<>> ELSE flag))

\* a.find_next_sibling("p"): the first paragraph among the later siblings
SummaryOf(elems, i) ==
    LET later == {j \in (i + 1)..Len(elems) : elems[j].tag = "p"}
    IN IF later = {} THEN None
       ELSE LET j == CHOOSE k \in later : \A m \in later : k <= m
            IN GetText(elems[j].pieces, <<>>)

\* the Story built from the anchor at place i
StoryOf(elems, i, readSet, bookmarks) ==
    LET href == AbsUrl(elems[i].href)
    IN [title |-> TitleOf(elems[i]), url |-> href, flag |-> FlagOf(elems[i]),
        summary |-> SummaryOf(elems, i),
        read |-> href \in readSet,
        bookmarked |-> href \in {bookmarks[b].url : b \in DOMAIN bookmarks}]

\* the loop of get_stories: a story for each selected anchor, in document
\* order, kept if title and href
RECURSIVE ScanStories(_, _, _, _)
ScanStories(elems, i, readSet, bookmarks) ==
    IF i > Len(elems) THEN <<>>
    ELSE LET rest == ScanStories(elems, i + 1, readSet, bookmarks)
             s == StoryOf(elems, i, readSet, bookmarks)
         IN IF elems[i].tag = "a" /\ IsStoryHref(elems[i].href)
               /\ s.title # <<>> /\ s.url # NoHref
            THEN <<s>> \o rest
            ELSE rest

\* a plausible slip: the last story of a url overwrites the earlier one
RECURSIVE UniqueOrderedStories_lastWins(_)
UniqueOrderedStories_lastWins(items) ==
    IF items = <<>> THEN <<>>
    ELSE LET u == items[Len(items)].url
             front == SubSeq(items, 1, Len(items) - 1)
         IN UniqueOrderedStories_lastWins(SelectSeq(front, LAMBDA s : s.url # u))
                \o <<items[Len(items)]>>

\* _unique_ordered_stories: the first story of each url, in order
RECURSIVE UniqueFrom(_, _)
UniqueFrom(items, seen) ==
    IF items = <<>> THEN <<>>
    ELSE IF Head(items).url # NoHref /\ Head(items).url \notin seen
         THEN <<Head(items)>> \o UniqueFrom(Tail(items), seen \cup {Head(items).url})
         ELSE UniqueFrom(Tail(items), seen)

UniqueOrderedStories(items) == UniqueFrom(items, {})

(***************************************************************************)
(* CBCSource.get_stories: fetch the section page, then parse it.           *)
(***************************************************************************)
\* the part after the fetch: [] if not content; [] on any parse exception
CbcStoriesResult(content, listing, readSet, bookmarks) ==
    IF content # "doc" THEN <<>>
    ELSE IF listing.parseRaises THEN <<>>
    ELSE UniqueOrderedStories(ScanStories(listing.elems, 1, readSet, bookmarks))

CbcGetStoriesCall ==
    /\ op.name = "none"
    /\ \E l \in Listings, r \in ReadSets, b \in BookmarkLists :
          op' = [name |-> "cbc_get_stories", pc |-> "fetching", listing |-> l,
                 readSet |-> r, bookmarks |-> b, result |-> <<>>]
    /\ fetch' = [fetch EXCEPT ![1] = FetchStart(RETRY_ATTEMPTS)]
    /\ UNCHANGED cacheVars

CbcGetStoriesParse ==
    /\ op.name = "cbc_get_stories" /\ op.pc = "fetching"
    /\ fetch[1].pc = "returned"
    /\ op' = [op EXCEPT !.pc = "done",
                        !.result = CbcStoriesResult(fetch[1].result, op.listing,
                                                    op.readSet, op.bookmarks)]
    /\ UNCHANGED <<fetch, cacheVars>>

\* an exception that left _retryable_fetch leaves get_stories too
CbcGetStoriesRaise ==
    /\ op.name = "cbc_get_stories" /\ op.pc = "fetching"
    /\ fetch[1].pc = "raised"
    /\ op' = [op EXCEPT !.pc = "raised"]
    /\ UNCHANGED <<fetch, cacheVars>>

\* the caller has the result; the adapter is free for the next operation
OpReturn ==
    /\ op.name # "none" /\ op.pc \in {"done", "raised"}
    /\ op' = NoOp
    /\ fetch' = [fetch EXCEPT ![1] = FetchIdle]
    /\ UNCHANGED cacheVars

(***************************************************************************)
(* RSSSource.get_stories.  A feed entry is the set of keys it has and      *)
(* their values; the summary and content are HTML, held as the strings     *)
(* between the tags.                                                       *)
(***************************************************************************)
MaxEntries == 2

FeedUrl1 == [base |-> "https://feed.example", path |-> "/1"]
FeedUrl2 == [base |-> "https://feed.example", path |-> "/2"]

Entry(keys, title, link, summary, content) ==
    [keys |-> keys, title |-> title, link |-> link,
     summary |-> summary, content |-> content]

EntryPool ==
    { Entry({"title", "link", "summary"}, <<"T", "1">>, FeedUrl1, << <<"S">> >>, <<>>),
      Entry({"title", "link", "summary", "content"}, <<"T", "2">>, FeedUrl1,
            << <<"S">> >>, << <<"C">> >>),
      Entry({"title", "link", "summary"}, <<"T", "3">>, FeedUrl2, <<>>, <<>>),
      Entry({"link"}, <<>>, FeedUrl2, <<>>, <<>>),
      Entry({"title"}, <<"T", "1">>, NoHref, <<>>, <<>>) }

\* feedparser.parse(url): the entries of the feed; none when the URL is
\* unreachable (feedparser reports the error in the result, it does not raise)
Feeds ==
    [entries : UNION {[1..n -> EntryPool] : n \in 0..MaxEntries},
     reachable : BOOLEAN]

ParsedEntries(feed) == IF feed.reachable THEN feed.entries ELSE <<>>

\* BeautifulSoup(html, "lxml").get_text(): the strings, joined as they are
RECURSIVE PlainText(_)
PlainText(pieces) ==
    IF pieces = <<>> THEN <<>> ELSE Head(pieces) \o PlainText(Tail(pieces))

\* entry["title"], entry["link"]: KeyError when the entry has no such key
EntryRaises(e) == "title" \notin e.keys \/ "link" \notin e.keys

\* a plausible slip: the two flags are taken from each other's collection
RssStoryOf_flagsSwapped(e, readSet, bookmarks) ==
    [title |-> e.title, url |-> e.link, flag |-> None,
     summary |-> PlainText(IF "summary" \in e.keys THEN e.summary ELSE <<>>),
     read |-> e.link \in {bookmarks[b].url : b \in DOMAIN bookmarks},
     bookmarked |-> e.link \in readSet]

RssStoryOf(e, readSet, bookmarks) ==
    [title |-> e.title, url |-> e.link, flag |-> None,
     summary |-> PlainText(IF "summary" \in e.keys THEN e.summary ELSE <<>>),
     read |-> e.link \in readSet,
     bookmarked |-> e.link \in {bookmarks[b].url : b \in DOMAIN bookmarks}]

\* the loop over feed.entries: no try, so the first KeyError ends the call
RssStoriesRaises(entries) == \E i \in DOMAIN entries : EntryRaises(entries[i])

RssStoriesResult(entries, readSet, bookmarks) ==
    [i \in DOMAIN entries |-> RssStoryOf(entries[i], readSet, bookmarks)]

RssReadSets == {{}, {FeedUrl1}}
RssBookmarkLists == {<<>>, <<[url |-> FeedUrl2]>>}

RssGetStories ==
    /\ op.name = "none"
    /\ \E f \in Feeds, r \in RssReadSets, b \in RssBookmarkLists :
          LET entries == ParsedEntries(f)
          IN op' = [name |-> "rss_get_stories",
                    pc |-> IF RssStoriesRaises(entries) THEN "raised" ELSE "done",
                    feed |-> f, readSet |-> r, bookmarks |-> b,
                    result |-> IF RssStoriesRaises(entries) THEN <<>>
                               ELSE RssStoriesResult(entries, r, b)]
    /\ UNCHANGED <<fetch, cacheVars>>

InitStories ==
    /\ fetch = [c \in Calls |-> FetchIdle]
    /\ op = NoOp
    /\ CacheUnused

NextStories ==
    \/ CbcGetStoriesCall
    \/ FetchAttempt(1)
    \/ FetchSleep(1)
    \/ CbcGetStoriesParse
    \/ CbcGetStoriesRaise
    \/ RssGetStories
    \/ OpReturn

SpecStories == InitStories /\ [][NextStories]_vars

(***************************************************************************)
(* CBCSource.get_story_content.  A story page is what the extractor reads  *)
(* of it: whether the __NEXT_DATA__ script is there and parses, the words  *)
(* of the title, of the rendered body and of the related links, and the    *)
(* text of the paragraphs of the main region.  A text is its number of     *)
(* words (len(text.split())) and whether PLACEHOLDER_PATTERN matches it.   *)
(***************************************************************************)
MaxMore == 2
NoTitle == -1
WordCounts == {0, 5, 14, 15, 16}
TitleWordCounts == {NoTitle, 0, 12}

Pages ==
    [soupRaises : BOOLEAN,
     script : {"missing", "nostring", "malformed", "ok"},
     titleWords : TitleWordCounts,
     bodyWords : WordCounts,
     more : 0..MaxMore,
     paraWords : WordCounts,
     paraPlaceholder : BOOLEAN]

\* "# " + article.get('title', 'No Title'): the mark and the title's words
HeadingWords(page) ==
    1 + (IF page.titleWords = NoTitle THEN 2 ELSE page.titleWords)

\* "---", "## More Stories" and one "- [title](url)" line for each link,
\* every link title being two words here
MoreWords(page) == IF page.more = 0 THEN 0 ELSE 4 + 3 * page.more

\* len(full.split()) of the joined heading, body and related links
FullWords(page) == HeadingWords(page) + page.bodyWords + MoreWords(page)

\* a plausible slip: a text of exactly the minimum is rejected too
IsPlaceholderText_atMost(words, matches) ==
    \/ words = 0
    \/ words <= MIN_ARTICLE_WORDS
    \/ matches

\* _is_placeholder_text
IsPlaceholderText(words, matches) ==
    \/ words = 0
    \/ words < MIN_ARTICLE_WORDS
    \/ matches

FailedFetch == [ok |-> FALSE, kind |-> "failed_fetch", words |-> 0]
NoContent == [ok |-> FALSE, kind |-> "no_content", words |-> 0]

\* the paragraph-scrape strategy and the final failure
ParagraphScrape(page) ==
    IF page.paraWords > 0 /\ ~IsPlaceholderText(page.paraWords, page.paraPlaceholder)
    THEN [ok |-> TRUE, kind |-> "paragraph", words |-> page.paraWords]
    ELSE NoContent

\* a plausible slip: the paragraph scrape is tried before the structured tree
ExtractContent_paragraphFirst(page) ==
    IF page.soupRaises THEN [result |-> NoContent, ran |-> {}]
    ELSE IF ParagraphScrape(page).ok
         THEN [result |-> ParagraphScrape(page), ran |-> {"paragraph"}]
         ELSE IF page.script = "ok" /\ FullWords(page) > MIN_ARTICLE_WORDS
              THEN [result |-> [ok |-> TRUE, kind |-> "structured",
                                words |-> FullWords(page)],
                    ran |-> {"paragraph", "structured"}]
              ELSE [result |-> NoContent, ran |-> {"paragraph", "structured"}]

\* the try block of get_story_content; ran: the strategies it went through
ExtractContent(page) ==
    IF page.soupRaises THEN [result |-> NoContent, ran |-> {}]
    ELSE LET tried == IF page.script \in {"malformed", "ok"}
                      THEN {"structured"} ELSE {}
         IN IF page.script = "ok" /\ FullWords(page) > MIN_ARTICLE_WORDS
            THEN [result |-> [ok |-> TRUE, kind |-> "structured",
                              words |-> FullWords(page)],
                  ran |-> tried]
            ELSE [result |-> ParagraphScrape(page),
                  ran |-> tried \cup {"paragraph"}]

\* a plausible slip: testing for None only
NoContentBytes_noneOnly(content) == content = "none"

\* if not content_bytes
NoContentBytes(content) == content \in {"none", "empty"}

NoPage ==
    [soupRaises |-> FALSE, script |-> "missing", titleWords |-> NoTitle,
     bodyWords |-> 0, more |-> 0, paraWords |-> 0, paraPlaceholder |-> FALSE]

ContentCall ==
    /\ op.name = "none"
    /\ op' = [name |-> "cbc_get_story_content", pc |-> "fetching",
              page |-> NoPage, result |-> NoContent, ran |-> {}]
    /\ fetch' = [fetch EXCEPT ![1] = FetchStart(RETRY_ATTEMPTS)]
    /\ UNCHANGED cacheVars

ContentFetchFailed ==
    /\ op.name = "cbc_get_story_content" /\ op.pc = "fetching"
    /\ fetch[1].pc = "returned"
    /\ NoContentBytes(fetch[1].result)
    /\ op' = [op EXCEPT !.pc = "done", !.result = FailedFetch]
    /\ UNCHANGED <<fetch, cacheVars>>

\* the page is the body of the response
ContentExtract ==
    /\ op.name = "cbc_get_story_content" /\ op.pc = "fetching"
    /\ fetch[1].pc = "returned"
    /\ ~NoContentBytes(fetch[1].result)
    /\ \E page \in Pages :
          op' = [op EXCEPT !.pc = "done", !.page = page,
                           !.result = ExtractContent(page).result,
                           !.ran = ExtractContent(page).ran]
    /\ UNCHANGED <<fetch, cacheVars>>

ContentRaise ==
    /\ op.name = "cbc_get_story_content" /\ op.pc = "fetching"
    /\ fetch[1].pc = "raised"
    /\ op' = [op EXCEPT !.pc = "raised"]
    /\ UNCHANGED <<fetch, cacheVars>>

(***************************************************************************)
(* RSSSource.get_story_content: the feed of the section is parsed again    *)
(* and the first entry whose link is the story's, and that has a content   *)
(* or a summary, gives the text.                                           *)
(***************************************************************************)
NoFeedContent == [ok |-> FALSE, kind |-> "no_feed_content", content |-> <<>>]

\* "\n".join(c.value for c in entry.content if "value" in c)
RECURSIVE JoinLines(_)
JoinLines(pieces) ==
    IF pieces = <<>> THEN <<>>
    ELSE IF Len(pieces) = 1 THEN Head(pieces)
    ELSE Head(pieces) \o <<"\n">> \o JoinLines(Tail(pieces))

\* a plausible slip: the summary is looked at before the content
RECURSIVE RssContentScan_summaryFirst(_, _)
RssContentScan_summaryFirst(entries, url) ==
    IF entries = <<>> THEN [raised |-> FALSE, result |-> NoFeedContent]
    ELSE LET e == Head(entries)
         IN IF "link" \notin e.keys
            THEN [raised |-> TRUE, result |-> NoFeedContent]
            ELSE IF e.link = url /\ "summary" \in e.keys
            THEN [raised |-> FALSE,
                  result |-> [ok |-> TRUE, kind |-> "feed",
                              content |-> PlainText(e.summary)]]
            ELSE IF e.link = url /\ "content" \in e.keys
            THEN [raised |-> FALSE,
                  result |-> [ok |-> TRUE, kind |-> "feed",
                              content |-> PlainText(<<JoinLines(e.content)>>)]]
            ELSE RssContentScan_summaryFirst(Tail(entries), url)

\* the loop over feed.entries; entry.link raises AttributeError when the
\* entry has no link, and nothing catches it
RECURSIVE RssContentScan(_, _)
RssContentScan(entries, url) ==
    IF entries = <<>> THEN [raised |-> FALSE, result |-> NoFeedContent]
    ELSE LET e == Head(entries)
         IN IF "link" \notin e.keys
            THEN [raised |-> TRUE, result |-> NoFeedContent]
            ELSE IF e.link = url /\ "content" \in e.keys
            THEN [raised |-> FALSE,
                  result |-> [ok |-> TRUE, kind |-> "feed",
                              content |-> PlainText(<<JoinLines(e.content)>>)]]
            ELSE IF e.link = url /\ "summary" \in e.keys
            THEN [raised |-> FALSE,
                  result |-> [ok |-> TRUE, kind |-> "feed",
                              content |-> PlainText(e.summary)]]
            ELSE RssContentScan(Tail(entries), url)

RssGetStoryContent ==
    /\ op.name = "none"
    /\ \E f \in Feeds, u \in {FeedUrl1, FeedUrl2} :
          LET r == RssContentScan(ParsedEntries(f), u)
          IN op' = [name |-> "rss_get_story_content",
                    pc |-> IF r.raised THEN "raised" ELSE "done",
                    feed |-> f, url |-> u, result |-> r.result]
    /\ UNCHANGED <<fetch, cacheVars>>

InitContent ==
    /\ fetch = [c \in Calls |-> FetchIdle]
    /\ op = NoOp
    /\ CacheUnused

NextContent ==
    \/ ContentCall
    \/ FetchAttempt(1)
    \/ FetchSleep(1)
    \/ ContentFetchFailed
    \/ ContentExtract
    \/ ContentRaise
    \/ RssGetStoryContent
    \/ OpReturn

SpecContent == InitContent /\ [][NextContent]_vars

(***************************************************************************)
(* CBCSource.get_sections: the home page, then the sections page; each is  *)
(* fetched and scanned for the anchors of the "lite" navigation.           *)
(***************************************************************************)
MaxNavAnchors == 2

HOME_PAGE_URL == [base |-> DOMAIN_BASE, path |-> "/lite"]
SECTIONS_PAGE_URL == [base |-> DOMAIN_BASE, path |-> "/lite/sections"]
HomeSection == [title |-> <<"H", "o", "m", "e">>, url |-> HOME_PAGE_URL]

\* str.lower(), for the letters of the titles used here
LowerChar(ch) ==
    CASE ch = "M" -> "m" [] ch = "W" -> "w" [] ch = "H" -> "h"
      [] ch = "C" -> "c" [] OTHER -> ch
Lower(s) == [i \in DOMAIN s |-> LowerChar(s[i])]

\* the titles get_sections never lists: {"menu", "search"}
TitleBlocklist == { <<"m", "e", "n", "u">>, <<"s", "e", "a", "r", "c", "h">> }

NavAnchor(inNav, href, text) == [inNav |-> inNav, href |-> href, text |-> text]

NavPool ==
    { NavAnchor(TRUE, [base |-> "", path |-> "/lite"], <<"H", "o", "m", "e">>),
      NavAnchor(TRUE, [base |-> "", path |-> "/lite/world"], <<"W">>),
      NavAnchor(FALSE, [base |-> "", path |-> "/lite/world/2"], <<SP, "W">>),
      NavAnchor(TRUE, [base |-> "", path |-> "/lite/canada"], <<"C">>),
      NavAnchor(TRUE, [base |-> "", path |-> "/lite/menu"], <<"M", "e", "n", "u">>),
      NavAnchor(FALSE, [base |-> "", path |-> "/lite/story/1"], <<"T", "1">>),
      NavAnchor(TRUE, [base |-> "https://other.example", path |-> "/news"], <<"N">>) }

\* a parse that raises does so while handling the anchor at raisesAt (at 1:
\* possibly before any anchor, in BeautifulSoup itself); 0: it does not raise
NavDocs ==
    UNION { [anchors : [1..n -> NavPool], raisesAt : 0..(IF n = 0 THEN 1 ELSE n)]
            : n \in 0..MaxNavAnchors }
NoNavDoc == [anchors |-> <<>>, raisesAt |-> 0]

\* config.get("sections"): None, or the titles the user allows
AllowedSets == { {}, {<<"W">>} }

\* the selector "nav a[href], a[href^='/lite']"
NavSelected(a) ==
    \/ a.inNav /\ a.href # NoHref
    \/ a.href.base = "" /\ a.href.path \in
          {"/lite", "/lite/world", "/lite/world/2", "/lite/canada", "/lite/menu", "/lite/story/1"}

\* "/lite" in href and "/lite/story/" not in href
IsSectionUrl(url) ==
    /\ url.path \in {"/lite", "/lite/sections", "/lite/world", "/lite/world/2",
                     "/lite/canada", "/lite/menu", "/lite/story/1"}
    /\ url.path # "/lite/story/1"

\* the conditions under which an anchor gives a section, the map aside
Qualifies(a, allowed) ==
    /\ NavSelected(a)
    /\ IsSectionUrl(AbsUrl(a.href))
    /\ Strip(a.text) # <<>>
    /\ Lower(Strip(a.text)) \notin TitleBlocklist
    /\ allowed = {} \/ Strip(a.text) \in allowed

\* a plausible slip: a title seen again takes the url of the later anchor
RECURSIVE ScanSections_lastWins(_, _, _, _)
ScanSections_lastWins(map, doc, i, allowed) ==
    IF i > Len(doc.anchors) \/ doc.raisesAt = i THEN map
    ELSE LET a == doc.anchors[i]
             title == Strip(a.text)
             seen == {map[k].title : k \in DOMAIN map}
         IN IF ~Qualifies(a, allowed)
            THEN ScanSections_lastWins(map, doc, i + 1, allowed)
            ELSE IF title \notin seen
            THEN ScanSections_lastWins(
                     Append(map, [title |-> title, url |-> AbsUrl(a.href)]),
                     doc, i + 1, allowed)
            ELSE ScanSections_lastWins(
                     [k \in DOMAIN map |->
                         IF map[k].title = title
                         THEN [title |-> title, url |-> AbsUrl(a.href)]
                         ELSE map[k]],
                     doc, i + 1, allowed)

\* the loop over the anchors of one page, from place i, inside the try:
\* sections_map keeps the first section of each title, in insertion order
RECURSIVE ScanSections(_, _, _, _)
ScanSections(map, doc, i, allowed) ==
    IF i > Len(doc.anchors) \/ doc.raisesAt = i THEN map
    ELSE LET a == doc.anchors[i]
             title == Strip(a.text)
             seen == {map[k].title : k \in DOMAIN map}
         IN IF Qualifies(a, allowed) /\ title \notin seen
            THEN ScanSections(Append(map, [title |-> title, url |-> AbsUrl(a.href)]),
                              doc, i + 1, allowed)
            ELSE ScanSections(map, doc, i + 1, allowed)

\* a plausible slip: return instead of continue when a page cannot be fetched
AfterPage_stopOnFailure(o, content, doc) ==
    LET map == IF content # "doc" THEN o.map
               ELSE ScanSections(o.map, doc, 1, o.allowed)
        o2 == [o EXCEPT !.map = map,
                        !.contents = Append(@, content),
                        !.docs = Append(@, doc)]
    IN IF o.page = 2 \/ content # "doc"
       THEN [o2 EXCEPT !.pc = "done", !.result = <<HomeSection>> \o map]
       ELSE [o2 EXCEPT !.page = 2]

\* one pass of the loop over the two pages, after its fetch: continue if not
\* content, else scan; after the second page return [Home] + the map's values
AfterPage(o, content, doc) ==
    LET map == IF content # "doc" THEN o.map
               ELSE ScanSections(o.map, doc, 1, o.allowed)
        o2 == [o EXCEPT !.map = map,
                        !.contents = Append(@, content),
                        !.docs = Append(@, doc)]
    IN IF o.page = 2
       THEN [o2 EXCEPT !.pc = "done", !.result = <<HomeSection>> \o map]
       ELSE [o2 EXCEPT !.page = 2]

SectionsCall ==
    /\ op.name = "none"
    /\ \E allowed \in AllowedSets :
          op' = [name |-> "cbc_get_sections", pc |-> "fetching", page |-> 1,
                 allowed |-> allowed, map |-> <<>>, contents |-> <<>>,
                 docs |-> <<>>, result |-> <<>>]
    /\ fetch' = [fetch EXCEPT ![1] = FetchStart(RETRY_ATTEMPTS)]
    /\ UNCHANGED cacheVars

SectionsPage ==
    /\ op.name = "cbc_get_sections" /\ op.pc = "fetching"
    /\ fetch[1].pc = "returned"
    /\ \E doc \in (IF fetch[1].result = "doc" THEN NavDocs ELSE {NoNavDoc}) :
          op' = AfterPage(op, fetch[1].result, doc)
    /\ fetch' = IF op'.pc = "fetching"
                THEN [fetch EXCEPT ![1] = FetchStart(RETRY_ATTEMPTS)]
                ELSE fetch
    /\ UNCHANGED cacheVars

SectionsRaise ==
    /\ op.name = "cbc_get_sections" /\ op.pc = "fetching"
    /\ fetch[1].pc = "raised"
    /\ op' = [op EXCEPT !.pc = "raised"]
    /\ UNCHANGED <<fetch, cacheVars>>

(***************************************************************************)
(* RSSSource.get_sections: the configured feed map, name to URL, in the    *)
(* order of the configuration (a dict keeps the order of insertion).       *)
(***************************************************************************)
MaxFeeds == 2

FeedNames == { <<"F", "1">>, <<"F", "2">> }
FeedMaps ==
    { m \in UNION {[1..n -> [name : FeedNames, url : {FeedUrl1, FeedUrl2}]]
                     : n \in 0..MaxFeeds} :
        \A i, j \in DOMAIN m : i # j => m[i].name # m[j].name }

\* a plausible slip: the sections come out last to first
RssSectionsResult_reversed(feeds) ==
    [i \in DOMAIN feeds |->
        [title |-> feeds[Len(feeds) + 1 - i].name,
         url |-> feeds[Len(feeds) + 1 - i].url]]

\* [Section(title, url) for title, url in self.feeds.items()]
RssSectionsResult(feeds) ==
    [i \in DOMAIN feeds |-> [title |-> feeds[i].name, url |-> feeds[i].url]]

RssGetSections ==
    /\ op.name = "none"
    /\ \E m \in FeedMaps :
          op' = [name |-> "rss_get_sections", pc |-> "done", feeds |-> m,
                 result |-> RssSectionsResult(m)]
    /\ UNCHANGED <<fetch, cacheVars>>

InitSections ==
    /\ fetch = [c \in Calls |-> FetchIdle]
    /\ op = NoOp
    /\ CacheUnused

NextSections ==
    \/ SectionsCall
    \/ FetchAttempt(1)
    \/ FetchSleep(1)
    \/ SectionsPage
    \/ SectionsRaise
    \/ RssGetSections
    \/ OpReturn

SpecSections == InitSections /\ [][NextSections]_vars

(***************************************************************************)
(* The disk cache (cache.py).  A file is a sequence of the chunks written  *)
(* to it; json.dump writes an entry chunk by chunk and json.load decodes   *)
(* what it finds.  Tasks run get, set and clear concurrently.              *)
(***************************************************************************)
MaxClock == 2
\* the ttl the Cache is constructed with, in ticks of the clock
TTL == 1

\* two tasks: a reader beside a writer, or two writers
Tasks == {1, 2}
Keys == {"k1"}

\* _get_cache_path: the sha256 digest of the key names the file; distinct
\* keys of the model have distinct digests
CachePath(k) == <<"sha256", k, ".json">>
Paths == {CachePath(k) : k \in Keys}

\* the Python values handed to set and returned by get
StrA == [py |-> "str", id |-> 1]
ListA == [py |-> "list", id |-> 2]
TupleA == [py |-> "tuple", id |-> 2]
ObjV == [py |-> "object", id |-> 3]
NoneV == [py |-> "none", id |-> 0]
SetValues == {StrA, TupleA, ObjV}

Tok(t, n) == [t |-> t, n |-> n]

\* json can encode str, list, tuple (as an array) and None; not an object
Serializable(v) == v.py \in {"str", "list", "tuple", "none"}

EncodeValue(v) ==
    CASE v.py = "str" -> <<Tok("str", v.id)>>
      [] v.py \in {"list", "tuple"} -> <<Tok("[", v.id), Tok("]", v.id)>>
      [] OTHER -> <<Tok("null", 0)>>

\* the chunks json.dump({"timestamp": ts, "value": v}, f) writes: the whole
\* entry, or what precedes the value when the value makes it raise TypeError
JsonChunks(ts, v) ==
    IF Serializable(v)
    THEN <<Tok("{", 0), Tok("ts", ts)>> \o EncodeValue(v) \o <<Tok("}", 0)>>
    ELSE <<Tok("{", 0), Tok("ts", ts)>>

IsValueEnc(d) ==
    \/ Len(d) = 1 /\ d[1].t \in {"str", "null"}
    \/ Len(d) = 2 /\ d[1].t = "[" /\ d[2].t = "]" /\ d[1].n = d[2].n

\* an array decodes to a list
DecodeValue(d) ==
    CASE d[1].t = "str" -> [py |-> "str", id |-> d[1].n]
      [] d[1].t = "[" -> [py |-> "list", id |-> d[1].n]
      [] OTHER -> NoneV

\* json.load(f): an entry object, another JSON document, or JSONDecodeError
JsonLoad(data) ==
    IF /\ Len(data) >= 4
       /\ data[1].t = "{" /\ data[2].t = "ts" /\ data[Len(data)].t = "}"
       /\ IsValueEnc(SubSeq(data, 3, Len(data) - 1))
    THEN [kind |-> "dict", ts |-> data[2].n,
          value |-> DecodeValue(SubSeq(data, 3, Len(data) - 1))]
    ELSE IF IsValueEnc(data)
         THEN [kind |-> "other", ts |-> 0, value |-> DecodeValue(data)]
         ELSE [kind |-> "error", ts |-> 0, value |-> NoneV]

FileAbsent == [exists |-> FALSE, data |-> <<>>]
\* a file of the directory that is JSON but no entry
ForeignFile == [exists |-> TRUE, data |-> <<Tok("[", 9), Tok("]", 9)>>]

\* write(toks) at offset pos of a file: a hole is filled with NULs
WriteAt(data, pos, toks) ==
    LET padded == IF Len(data) < pos
                  THEN data \o [i \in 1..(pos - Len(data)) |-> Tok("nul", 0)]
                  ELSE data
    IN SubSeq(padded, 1, pos) \o toks
          \o SubSeq(padded, pos + Len(toks) + 1, Len(padded))

\* the chunks that fill the buffer of the file object and are written at once
FlushChunks == 2

\* a plausible slip: an entry of age ttl counts as expired
Expired_atTtl(now, ts) == now - ts >= TTL

\* time.time() - data.get("timestamp", 0) > self.ttl
Expired(now, ts) == now - ts > TTL

\* a plausible slip: the age of the entry is not looked at
ReadEntry_neverExpires(file, now) ==
    LET loaded == JsonLoad(file.data)
    IN IF ~file.exists THEN [raised |-> FALSE, ret |-> NoneV]
       ELSE IF loaded.kind = "error" THEN [raised |-> FALSE, ret |-> NoneV]
       ELSE IF loaded.kind = "other" THEN [raised |-> TRUE, ret |-> NoneV]
       ELSE [raised |-> FALSE, ret |-> loaded.value]

\* the try block of get, the file being there: open, json.load, the expiry
\* test, data.get("value").  A JSON document that is no object has no .get:
\* AttributeError, which the except clause does not name.
ReadEntry(file, now) ==
    LET loaded == JsonLoad(file.data)
    IN IF ~file.exists THEN [raised |-> FALSE, ret |-> NoneV]
       ELSE IF loaded.kind = "error" THEN [raised |-> FALSE, ret |-> NoneV]
       ELSE IF loaded.kind = "other" THEN [raised |-> TRUE, ret |-> NoneV]
       ELSE IF Expired(now, loaded.ts) THEN [raised |-> FALSE, ret |-> NoneV]
       ELSE [raised |-> FALSE, ret |-> loaded.value]

LastAbsent == [state |-> "absent", val |-> NoneV, ts |-> 0]
LastUnknown == [state |-> "unknown", val |-> NoneV, ts |-> 0]
LastEntry(v, ts) == [state |-> "entry", val |-> v, ts |-> ts]

TaskIdle ==
    [pc |-> "idle", name |-> "", key |-> "", val |-> NoneV, ts |-> 0, pos |-> 0,
     clean |-> FALSE, prev |-> LastUnknown, unlinked |-> FALSE,
     ret |-> NoneV, io |-> FALSE, tnow |-> 0,
     seenLast |-> LastUnknown, seenWriters |-> {}, todo |-> {}]

\* the tasks other than t that are inside set(k, _), and those inside clear
Writers(t, k) ==
    {u \in Tasks \ {t} : task[u].pc \in {"set_open", "set_write"} /\ task[u].key = k}
Clearing(t) == {u \in Tasks \ {t} : task[u].pc = "clear_unlink"}
WriterFacts(t, k) ==
    {[val |-> task[u].val, ts |-> task[u].ts, prev |-> task[u].prev,
      clean |-> task[u].clean] : u \in Writers(t, k)}

Tick ==
    /\ clock < MaxClock
    /\ clock' = clock + 1
    /\ UNCHANGED <<files, last, task, adapterVars>>

\* set, to the try: cache_path and data, with time.time()
SetCall(t) ==
    /\ task[t].pc = "idle"
    /\ \E k \in Keys, v \in SetValues :
          /\ task' = [u \in Tasks |->
                IF u = t
                THEN [TaskIdle EXCEPT !.pc = "set_open", !.name = "set", !.key = k, !.val = v,
                          !.ts = clock, !.prev = last[k],
                          !.clean = (Writers(t, k) = {} /\ Clearing(t) = {})]
                ELSE IF u \in Writers(t, k) THEN [task[u] EXCEPT !.clean = FALSE]
                ELSE task[u]]
          /\ last' = [last EXCEPT ![k] = LastUnknown]
    /\ UNCHANGED <<files, clock, adapterVars>>

\* open(cache_path, "w"): the file is created or truncated; IOError is caught
SetOpen(t) ==
    /\ task[t].pc = "set_open"
    /\ \/ /\ files' = [files EXCEPT ![CachePath(task[t].key)] =
                          [exists |-> TRUE, data |-> <<>>]]
          /\ task' = [task EXCEPT ![t].pc = "set_write"]
       \/ /\ task' = [task EXCEPT ![t].pc = "done"]
          /\ UNCHANGED files
    /\ UNCHANGED <<clock, last, adapterVars>>

\* json.dump and the end of the with block: the chunks reach the file in one
\* write or, when the buffer fills, in several; a TypeError of json.dump is
\* not caught; IOError is caught
SetWrite(t) ==
    /\ task[t].pc = "set_write"
    /\ LET k == task[t].key
           chunks == JsonChunks(task[t].ts, task[t].val)
           left == Len(chunks) - task[t].pos
       IN \/ \E m \in {IF left < FlushChunks THEN left ELSE FlushChunks, left} :
                LET pos2 == task[t].pos + m
                    finished == pos2 = Len(chunks)
                    ok == finished /\ Serializable(task[t].val)
                IN /\ files' = IF task[t].unlinked THEN files
                               ELSE [files EXCEPT ![CachePath(k)].data =
                                       WriteAt(@, task[t].pos,
                                               SubSeq(chunks, task[t].pos + 1, pos2))]
                   /\ task' = [task EXCEPT ![t].pos = pos2,
                                  ![t].pc = IF ~finished THEN "set_write"
                                            ELSE IF ok THEN "done" ELSE "raised"]
                   /\ last' = IF ok /\ task[t].clean
                              THEN [last EXCEPT ![k] = LastEntry(task[t].val, task[t].ts)]
                              ELSE last
          \/ /\ task' = [task EXCEPT ![t].pc = "done"]
             /\ UNCHANGED <<files, last>>
    /\ UNCHANGED <<clock, adapterVars>>

GetCall(t) ==
    /\ task[t].pc = "idle"
    /\ \E k \in Keys : task' = [task EXCEPT ![t] = [TaskIdle EXCEPT !.pc = "get_exists", !.name = "get", !.key = k]]
    /\ UNCHANGED <<files, clock, last, adapterVars>>

\* if not os.path.exists(cache_path): return None
GetExists(t) ==
    /\ task[t].pc = "get_exists"
    /\ LET k == task[t].key
       IN task' = [task EXCEPT ![t] =
             IF files[CachePath(k)].exists
             THEN [@ EXCEPT !.pc = "get_read"]
             ELSE [@ EXCEPT !.pc = "done", !.ret = NoneV, !.tnow = clock,
                            !.seenLast = last[k],
                            !.seenWriters = WriterFacts(t, k)]]
    /\ UNCHANGED <<files, clock, last, adapterVars>>

\* a plausible slip: get removes the entry it finds expired
GetRead_unlinkExpired(t) ==
    /\ task[t].pc = "get_read"
    /\ LET k == task[t].key
           file == files[CachePath(k)]
           r == ReadEntry(file, clock)
           loaded == JsonLoad(file.data)
       IN /\ task' = [task EXCEPT ![t] =
                [@ EXCEPT !.pc = IF r.raised THEN "raised" ELSE "done",
                          !.ret = r.ret, !.tnow = clock,
                          !.seenLast = last[k],
                          !.seenWriters = WriterFacts(t, k)]]
          /\ files' = IF loaded.kind = "dict" /\ Expired(clock, loaded.ts)
                      THEN [files EXCEPT ![CachePath(k)] = FileAbsent]
                      ELSE files
    /\ UNCHANGED <<clock, last, adapterVars>>

\* the try block of get; an IOError of open or read is caught
GetRead(t) ==
    /\ task[t].pc = "get_read"
    /\ LET k == task[t].key
           r == ReadEntry(files[CachePath(k)], clock)
       IN \/ task' = [task EXCEPT ![t] =
                [@ EXCEPT !.pc = IF r.raised THEN "raised" ELSE "done",
                          !.ret = r.ret, !.tnow = clock,
                          !.seenLast = last[k],
                          !.seenWriters = WriterFacts(t, k)]]
          \/ task' = [task EXCEPT ![t] =
                [@ EXCEPT !.pc = "done", !.ret = NoneV, !.io = TRUE, !.tnow = clock,
                          !.seenLast = last[k],
                          !.seenWriters = WriterFacts(t, k)]]
    /\ UNCHANGED <<files, clock, last, adapterVars>>

\* clear: os.listdir, outside any try
ClearCall(t) ==
    /\ task[t].pc = "idle"
    /\ \/ /\ task' = [u \in Tasks |->
                IF u = t
                THEN [TaskIdle EXCEPT !.pc = "clear_unlink", !.name = "clear",
                          !.todo = {k \in Keys : files[CachePath(k)].exists}]
                ELSE IF task[u].pc \in {"set_open", "set_write"}
                     THEN [task[u] EXCEPT !.clean = FALSE]
                     ELSE task[u]]
          /\ last' = [k \in Keys |-> LastUnknown]
       \/ /\ task' = [task EXCEPT ![t] = [TaskIdle EXCEPT !.pc = "raised", !.name = "clear"]]
          /\ UNCHANGED last
    /\ UNCHANGED <<files, clock, adapterVars>>

\* the loop of clear: os.unlink of each file listed, its failure caught; a
\* task writing the file keeps writing to a file that has no name any more
ClearUnlink(t) ==
    /\ task[t].pc = "clear_unlink"
    /\ \/ /\ task[t].todo = {}
          /\ task' = [task EXCEPT ![t].pc = "done"]
          /\ UNCHANGED files
       \/ \E k \in task[t].todo :
             \/ /\ files[CachePath(k)].exists
                /\ files' = [files EXCEPT ![CachePath(k)] = FileAbsent]
                /\ task' = [u \in Tasks |->
                      IF u = t THEN [task[u] EXCEPT !.todo = @ \ {k}]
                      ELSE IF task[u].pc = "set_write" /\ task[u].key = k
                           THEN [task[u] EXCEPT !.unlinked = TRUE]
                           ELSE task[u]]
             \/ /\ task' = [task EXCEPT ![t].todo = @ \ {k}]
                /\ UNCHANGED files
    /\ UNCHANGED <<clock, last, adapterVars>>

\* the operation is over; the task goes on to its next one
TaskReturn(t) ==
    /\ task[t].pc \in {"done", "raised"}
    /\ task' = [task EXCEPT ![t] = TaskIdle]
    /\ UNCHANGED <<files, clock, last, adapterVars>>

InitCache ==
    /\ fetch = [c \in Calls |-> FetchIdle]
    /\ op = NoOp
    /\ files \in [Paths -> {FileAbsent, ForeignFile}]
    /\ clock = 0
    /\ last = [k \in Keys |->
                 IF files[CachePath(k)].exists THEN LastUnknown ELSE LastAbsent]
    /\ task = [t \in Tasks |-> TaskIdle]

NextCache ==
    \/ Tick
    \/ \E t \in Tasks :
          \/ SetCall(t) \/ SetOpen(t) \/ SetWrite(t)
          \/ GetCall(t) \/ GetExists(t) \/ GetRead(t)
          \/ ClearCall(t) \/ ClearUnlink(t)
          \/ TaskReturn(t)

SpecCache == InitCache /\ [][NextCache]_vars

(***************************************************************************)
(* C1: for every attempt budget n >= 1, a call of _retryable_fetch whose   *)
(* every request failed (a request-level error or an error status) issued  *)
(* exactly n requests when it ends, and it ends by returning None, not by  *)
(* raising; while it runs it never issued more than n requests.            *)
(***************************************************************************)
C1_AllFailReturnsNone ==
    \A c \in Calls :
        LET f == fetch[c] IN
        (f.attempts >= 1 /\ f.failures = f.requests) =>
            /\ f.requests <= f.attempts
            /\ f.pc # "raised"
            /\ FetchDone(f) => (f.requests = f.attempts /\ f.result = "none")
            /\ f.pc = "idle" \/ FetchDone(f) \/ f.requests = f.attempt - 1
                   \/ (f.pc = "sleep" /\ f.requests = f.attempt)

C1_Witness ==
    \E c \in Calls :
        /\ fetch[c].pc = "returned"
        /\ fetch[c].attempts = 3
        /\ fetch[c].failures = 3
        /\ fetch[c].requests = 3
        /\ fetch[c].result = "none"

(***************************************************************************)
(* Places of a listing: the anchors get_stories selects, and those among   *)
(* them that yield a story (a non-empty title and url).                    *)
(***************************************************************************)
Selected(elems) ==
    {i \in DOMAIN elems : elems[i].tag = "a" /\ IsStoryHref(elems[i].href)}
Yielding(elems) ==
    {i \in Selected(elems) : TitleOf(elems[i]) # <<>> /\ AbsUrl(elems[i].href) # NoHref}
FirstOf(S) == CHOOSE k \in S : \A m \in S : k <= m
CbcStoriesParsed ==
    /\ op.name = "cbc_get_stories" /\ op.pc = "done"
    /\ fetch[1].result = "doc" /\ ~op.listing.parseRaises

(***************************************************************************)
(* C2 as stated: get_stories returns no two stories with equal url, the    *)
(* story kept for a url is the one built from the earliest anchor of the   *)
(* document that resolves to that url, and the stories appear in the order *)
(* of the first occurrence of their urls.                                  *)
(***************************************************************************)
C2_EarliestAnchorKept ==
    CbcStoriesParsed =>
        LET elems == op.listing.elems
            res == op.result
            first(u) == FirstOf({i \in Selected(elems) : AbsUrl(elems[i].href) = u})
        IN /\ \A i, j \in DOMAIN res : i # j => res[i].url # res[j].url
           /\ \A i \in DOMAIN res :
                 /\ res[i].title = TitleOf(elems[first(res[i].url)])
                 /\ res[i].flag = FlagOf(elems[first(res[i].url)])
           /\ \A i, j \in DOMAIN res : i < j => first(res[i].url) < first(res[j].url)

(***************************************************************************)
(* C2 amended: get_stories returns no two stories with equal url; the      *)
(* anchors that yield a story are those with a non-empty title; the story  *)
(* kept for a url is the one built from the earliest anchor that yields a  *)
(* story with that url, every such url is kept, and the stories appear in  *)
(* the order of those earliest anchors.                                    *)
(***************************************************************************)
C2_FirstYieldingAnchorKept ==
    CbcStoriesParsed =>
        LET elems == op.listing.elems
            res == op.result
            first(u) == FirstOf({i \in Yielding(elems) : AbsUrl(elems[i].href) = u})
        IN /\ \A i, j \in DOMAIN res : i # j => res[i].url # res[j].url
           /\ {res[i].url : i \in DOMAIN res}
                 = {AbsUrl(elems[i].href) : i \in Yielding(elems)}
           /\ \A i \in DOMAIN res :
                 /\ res[i].title = TitleOf(elems[first(res[i].url)])
                 /\ res[i].flag = FlagOf(elems[first(res[i].url)])
           /\ \A i, j \in DOMAIN res : i < j => first(res[i].url) < first(res[j].url)

\* two anchors with a title resolve to one url, and the first one is kept
C2_Witness ==
    /\ CbcStoriesParsed
    /\ Len(op.result) = 2
    /\ Cardinality({i \in Yielding(op.listing.elems) :
                       AbsUrl(op.listing.elems[i].href) = op.result[1].url}) = 2
    /\ op.result[1].title = <<"T", "1">>
    /\ op.result[1].flag = <<"N">>

(***************************************************************************)
(* C7 as stated: get_stories of either adapter never raises, and a network *)
(* failure or a parse failure (an unreachable URL, a malformed document, a *)
(* feed entry without a title or a link) yields the empty list.            *)
(***************************************************************************)
C7_StoriesFailSoft ==
    /\ (op.name = "cbc_get_stories" /\ op.pc \in {"done", "raised"}
          /\ fetch[1].pc = "returned"
          /\ (fetch[1].result = "none" \/ op.listing.parseRaises))
       => (op.pc = "done" /\ op.result = <<>>)
    /\ (op.name = "rss_get_stories"
          /\ (~op.feed.reachable
                \/ \E i \in DOMAIN op.feed.entries : EntryRaises(op.feed.entries[i])))
       => (op.pc = "done" /\ op.result = <<>>)

ContentDone == op.name = "cbc_get_story_content" /\ op.pc = "done"
ContentExtracted == ContentDone /\ fetch[1].result = "doc"

(***************************************************************************)
(* C4 as stated: when the text extracted from the article body has fewer   *)
(* than MIN_ARTICLE_WORDS words, the structured-tree strategy does not     *)
(* accept it, whatever the title and the related links are.                *)
(***************************************************************************)
C4_ShortBodyNotAccepted ==
    (ContentExtracted /\ op.page.bodyWords < MIN_ARTICLE_WORDS)
        => op.result.kind # "structured"

(***************************************************************************)
(* C5: the two strategies run in a fixed order and the first success wins. *)
(* If the structured tree is there, parses and passes the gate, its text   *)
(* is the result and the paragraph scrape did not run; the paragraph       *)
(* scrape runs only when the payload is missing, malformed or rejected;    *)
(* and when neither yields acceptable content the result is ok:false with  *)
(* the could-not-extract reason.                                           *)
(***************************************************************************)
C5_FirstSuccessWins ==
    ContentExtracted =>
        LET page == op.page
            structured == /\ ~page.soupRaises /\ page.script = "ok"
                          /\ FullWords(page) > MIN_ARTICLE_WORDS
            paragraph == /\ ~page.soupRaises /\ page.paraWords >= MIN_ARTICLE_WORDS
                         /\ ~page.paraPlaceholder
        IN /\ structured =>
                 /\ op.result = [ok |-> TRUE, kind |-> "structured",
                                 words |-> FullWords(page)]
                 /\ "paragraph" \notin op.ran
           /\ "paragraph" \in op.ran => ~structured
           /\ op.result.kind = "paragraph" =>
                 /\ paragraph
                 /\ op.result = [ok |-> TRUE, kind |-> "paragraph",
                                 words |-> page.paraWords]
           /\ (~structured /\ paragraph) => op.result.kind = "paragraph"
           /\ (~structured /\ ~paragraph) => op.result = NoContent

\* both strategies would accept, and the structured text is the result
C5_Witness ==
    /\ ContentExtracted
    /\ op.page.script = "ok" /\ op.page.bodyWords = 16
    /\ op.page.paraWords = 16 /\ ~op.page.paraPlaceholder
    /\ op.result.kind = "structured"
    /\ op.ran = {"structured"}

(***************************************************************************)
(* C6 as stated: when the fetch of the story document fails, the result is *)
(* ok:false with the failed-to-fetch reason and no extraction step runs;   *)
(* that reason is returned in no other situation.                          *)
(***************************************************************************)
C6_FailedFetchOnlyOnFailure ==
    ContentDone =>
        /\ fetch[1].result = "none" => (op.result = FailedFetch /\ op.ran = {})
        /\ op.result.kind = "failed_fetch" =>
              (fetch[1].result = "none" /\ fetch[1].failures = fetch[1].attempts)

(***************************************************************************)
(* C6 amended: the failed-to-fetch result is returned, and no extraction   *)
(* step runs, exactly when _retryable_fetch hands back no bytes: when all  *)
(* attempts failed, and also when an attempt succeeded with an empty body. *)
(***************************************************************************)
C6_FailedFetchIffNoBytes ==
    ContentDone =>
        /\ fetch[1].result = "none" => fetch[1].failures = fetch[1].attempts
        /\ fetch[1].result \in {"none", "empty"} =>
              (op.result = FailedFetch /\ op.ran = {})
        /\ op.result.kind = "failed_fetch" => fetch[1].result \in {"none", "empty"}
        /\ fetch[1].result = "doc" => op.ran # {} \/ op.page.soupRaises

\* all four attempts failed and the result is the failed-to-fetch one
C6_Witness ==
    /\ ContentDone
    /\ fetch[1].requests = RETRY_ATTEMPTS /\ fetch[1].failures = RETRY_ATTEMPTS
    /\ op.result = FailedFetch
    /\ op.ran = {}

(***************************************************************************)
(* A page of get_sections failed if its fetch gave no content or its parse *)
(* raised; it gave nothing if that happened before any anchor was scanned. *)
(***************************************************************************)
SectionsDone == op.name = "cbc_get_sections" /\ op.pc = "done"
PageFailed(p) == op.contents[p] # "doc" \/ op.docs[p].raisesAt # 0
PageGaveNothing(p) == op.contents[p] # "doc" \/ op.docs[p].raisesAt = 1
\* the titles of the qualifying anchors of page p, in order of first appearance
RECURSIVE FirstTitles(_, _, _)
FirstTitles(anchors, allowed, seen) ==
    IF anchors = <<>> THEN <<>>
    ELSE LET a == Head(anchors)
         IN IF Qualifies(a, allowed) /\ Strip(a.text) \notin seen
            THEN <<[title |-> Strip(a.text), url |-> AbsUrl(a.href)]>>
                   \o FirstTitles(Tail(anchors), allowed, seen \cup {Strip(a.text)})
            ELSE FirstTitles(Tail(anchors), allowed, seen)

GetReturned(t) == task[t].name = "get" /\ task[t].pc = "done" /\ ~task[t].io
\* a value as JSON holds it: a tuple is an array, which loads as a list
AsJson(v) == IF v.py = "tuple" THEN [v EXCEPT !.py = "list"] ELSE v

(***************************************************************************)
(* C3 as stated: after set(k, v), a get(k) within the TTL returns a value  *)
(* equal to v, and a get(k) after the TTL returns None, no other set of k  *)
(* and no clear having happened in between.                                *)
(***************************************************************************)
C3_RoundTripEqual ==
    \A t \in Tasks :
        (GetReturned(t) /\ task[t].seenLast.state = "entry") =>
            LET e == task[t].seenLast
            IN /\ task[t].tnow - e.ts <= TTL => task[t].ret = e.val
               /\ task[t].tnow - e.ts > TTL => task[t].ret = NoneV

(***************************************************************************)
(* C3 amended: after a set(k, v) that wrote its entry, a get(k) that reads *)
(* the file while now - storedAt <= ttl returns v as JSON holds it (equal  *)
(* to v when v is made of JSON types; a tuple comes back as a list), and a *)
(* get(k) after the TTL returns None, no other set of k and no clear       *)
(* having happened in between.                                             *)
(***************************************************************************)
C3_RoundTripAsJson ==
    \A t \in Tasks :
        (GetReturned(t) /\ task[t].seenLast.state = "entry") =>
            LET e == task[t].seenLast
            IN /\ task[t].tnow - e.ts <= TTL => task[t].ret = AsJson(e.val)
               /\ task[t].tnow - e.ts > TTL => task[t].ret = NoneV
               /\ e.val.py # "tuple" => AsJson(e.val) = e.val

\* a string stored and read back at the last instant of its TTL
C3_Witness ==
    \E t \in Tasks :
        /\ GetReturned(t)
        /\ task[t].seenLast = LastEntry(StrA, 0)
        /\ task[t].tnow = TTL
        /\ task[t].ret = StrA

(***************************************************************************)
(* C9 as stated: the cache never raises; whatever fails underneath, get    *)
(* returns None and set and clear return normally.                         *)
(***************************************************************************)
C9_CacheNeverRaises == \A t \in Tasks : task[t].pc # "raised"

(***************************************************************************)
(* C10 as stated: a get(k) that runs while one set(k, v_new) is in         *)
(* progress returns the complete value stored before (None if there was    *)
(* none or it has expired) or the complete new value, never anything else. *)
(***************************************************************************)
C10_GetSeesOldOrNew ==
    \A t \in Tasks :
        (GetReturned(t) /\ Cardinality(task[t].seenWriters) = 1) =>
            \A w \in task[t].seenWriters :
                (w.clean /\ Serializable(w.val) /\ w.prev.state # "unknown") =>
                    \/ task[t].ret = AsJson(w.val) /\ task[t].tnow - w.ts <= TTL
                    \/ task[t].ret = NoneV /\ task[t].tnow - w.ts > TTL
                    \/ /\ w.prev.state = "entry"
                       /\ task[t].tnow - w.prev.ts <= TTL
                       /\ task[t].ret = AsJson(w.prev.val)
                    \/ /\ \/ w.prev.state = "absent"
                          \/ task[t].tnow - w.prev.ts > TTL
                       /\ task[t].ret = NoneV

(***************************************************************************)
(* C11 as stated: when two tasks have run set(k, v1) and set(k, v2), each  *)
(* having written its whole entry, then after both have returned the file  *)
(* of k holds one complete entry, that of v1 or that of v2, and a get(k)   *)
(* within the TTL would return that value, whatever the interleaving of    *)
(* the two writes was.                                                     *)
(***************************************************************************)
WroteEntry(t) ==
    /\ task[t].name = "set" /\ task[t].pc = "done"
    /\ Serializable(task[t].val)
    /\ task[t].pos = Len(JsonChunks(task[t].ts, task[t].val))
    /\ ~task[t].unlinked

C11_RacingWritersLeaveEntry ==
    \A t1, t2 \in Tasks :
        (t1 # t2 /\ WroteEntry(t1) /\ WroteEntry(t2) /\ task[t1].key = task[t2].key) =>
            LET file == files[CachePath(task[t1].key)]
                mine(t) == JsonChunks(task[t].ts, task[t].val)
            IN /\ file.exists
               /\ file.data \in {mine(t1), mine(t2)}
               /\ ~Expired(clock, JsonLoad(file.data).ts) =>
                     ReadEntry(file, clock).ret
                        \in {AsJson(task[t1].val), AsJson(task[t2].val)}

(***************************************************************************)
(* Acquisition as the application runs it (app.py, screens.py): every      *)
(* selection, refresh or reload starts a worker thread that calls the      *)
(* adapter, and the adapter calls _retryable_fetch with the URL.  No       *)
(* worker waits for another, and no adapter operation reads or writes the  *)
(* cache.  okAt is the time of the last successful acquisition of a URL,   *)
(* which is when a cache in front of the network would have stored it.     *)
(***************************************************************************)
AcqUrls ==
    { [base |-> DOMAIN_BASE, path |-> "/lite/world"],
      [base |-> DOMAIN_BASE, path |-> "/lite/story/1"] }

NeverFetched == 0 - 1

AcquireIdle ==
    [name |-> "acquire", url |-> [c \in Calls |-> NoHref],
     hit |-> [c \in Calls |-> FALSE], okAt |-> [u \in AcqUrls |-> NeverFetched]]

\* an entry stored at the last success would still be within its TTL
FreshAt(o, u, now) == o.okAt[u] # NeverFetched /\ ~Expired(now, o.okAt[u])

\* run_worker(lambda: source.get_stories(section) / get_story_content(story),
\* thread=True): the worker starts at once and goes straight to the network
AcquireStart(c) ==
    /\ op.url[c] = NoHref /\ fetch[c].pc = "idle"
    /\ \E u \in AcqUrls :
          op' = [op EXCEPT !.url[c] = u, !.hit[c] = FreshAt(op, u, clock)]
    /\ fetch' = [fetch EXCEPT ![c] = FetchStart(RETRY_ATTEMPTS)]
    /\ UNCHANGED cacheVars

\* the adapter operation returns (or raises); nothing is stored
AcquireEnd(c) ==
    /\ op.url[c] # NoHref /\ FetchDone(fetch[c])
    /\ op' = [op EXCEPT !.url[c] = NoHref, !.hit[c] = FALSE,
                        !.okAt[op.url[c]] =
                            IF fetch[c].pc = "returned" /\ fetch[c].result = "doc"
                            THEN clock ELSE @]
    /\ fetch' = [fetch EXCEPT ![c] = FetchIdle]
    /\ UNCHANGED cacheVars

InitAcquire ==
    /\ fetch = [c \in Calls |-> FetchIdle]
    /\ op = AcquireIdle
    /\ files = [p \in Paths |-> FileAbsent]
    /\ clock = 0
    /\ last = [k \in Keys |-> LastAbsent]
    /\ task = [t \in Tasks |-> TaskIdle]

NextAcquire ==
    \/ Tick
    \/ \E c \in Calls :
          AcquireStart(c) \/ FetchAttempt(c) \/ FetchSleep(c) \/ AcquireEnd(c)

SpecAcquire == InitAcquire /\ [][NextAcquire]_vars

(***************************************************************************)
(* C12 as stated: an operation requested again for a URL whose last        *)
(* successful acquisition is within the TTL is answered from the cache and *)
(* issues no network request; a request goes to the network only on a miss *)
(* or an expired entry.                                                    *)
(***************************************************************************)
C12_NoRequestOnFreshEntry ==
    \A c \in Calls : op.hit[c] => fetch[c].requests = 0

(***************************************************************************)
(* C13 as stated: however many acquisitions have been started for the same *)
(* URL, at most one network fetch for that URL is in progress.             *)
(***************************************************************************)
InFlight(c) == op.url[c] # NoHref /\ fetch[c].pc \in {"attempt", "sleep"}

C13_SingleFlight ==
    \A c1, c2 \in Calls :
        (c1 # c2 /\ InFlight(c1) /\ InFlight(c2)) => op.url[c1] # op.url[c2]

(***************************************************************************)
(* The waits of a call of _retryable_fetch: 2^k, and their sum.            *)
(***************************************************************************)
RECURSIVE Pow2(_)
Pow2(k) == IF k <= 0 THEN 1 ELSE 2 * Pow2(k - 1)

RECURSIVE SumSeq(_)
SumSeq(s) == IF s = <<>> THEN 0 ELSE Head(s) + SumSeq(Tail(s))

(***************************************************************************)
(* C14: the backoff schedule of _retryable_fetch.  The attempts of a call  *)
(* run one after another; no wait precedes the first attempt; the wait     *)
(* before the k-th retry is INITIAL_RETRY_DELAY * 2^(k-1); one wait        *)
(* follows every failed attempt but the last, so that a call which failed  *)
(* n times out of n has slept exactly n-1 times.                           *)
(***************************************************************************)
C14_BackoffSchedule ==
    \A c \in Calls :
        LET f == fetch[c] IN
        f.pc # "idle" =>
            /\ \A k \in DOMAIN f.sleeps :
                  f.sleeps[k] = INITIAL_RETRY_DELAY * Pow2(k - 1)
            /\ f.pc = "attempt" => (Len(f.sleeps) = f.requests /\ f.attempt = f.requests + 1)
            /\ f.pc = "sleep" => (Len(f.sleeps) = f.requests - 1 /\ f.attempt = f.requests)
            /\ (FetchDone(f) /\ f.requests >= 1) => Len(f.sleeps) = f.requests - 1
            /\ (FetchDone(f) /\ f.attempts >= 1 /\ f.failures = f.attempts) =>
                  Len(f.sleeps) = f.attempts - 1

\* four failures out of four: waits of 0.5 s, 1 s and 2 s
C14_Witness ==
    \E c \in Calls :
        /\ fetch[c].pc = "returned" /\ fetch[c].attempts = 4
        /\ fetch[c].failures = 4
        /\ fetch[c].sleeps = <<500, 1000, 2000>>

(***************************************************************************)
(* C15 as stated: a response whose status is outside 200-299 is a failed   *)
(* attempt: _retryable_fetch never returns the body of such a response.    *)
(***************************************************************************)
C15_Non2xxNeverReturned ==
    \A c \in Calls :
        (fetch[c].pc = "returned" /\ fetch[c].status # 0) =>
            (fetch[c].status >= 200 /\ fetch[c].status <= 299)

(***************************************************************************)
(* C16 as stated: whatever the transport raises during an attempt, a call  *)
(* of _retryable_fetch ends by returning bytes or the failure value; no    *)
(* exception leaves it.                                                    *)
(***************************************************************************)
C16_NoExceptionLeavesFetch == \A c \in Calls : fetch[c].pc # "raised"

RssContentDone == op.name = "rss_get_story_content" /\ op.pc = "done"

C18_ResultFullyPopulated ==
    /\ ContentDone =>
          /\ op.result.ok => op.result.words > 0
          /\ ~op.result.ok => op.result.kind \in {"failed_fetch", "no_content"}
    /\ RssContentDone =>
          /\ op.result.ok => op.result.content # <<>>
          /\ ~op.result.ok => op.result.kind = "no_feed_content"

(***************************************************************************)
(* Structured-tree rendering (_parse_json_node_to_markdown).  A node is a  *)
(* text node with its string, or an element with a tag, its child nodes    *)
(* and the href of its attrs.  The markdown is a sequence of characters,   *)
(* an absolute URL being one item of it.                                   *)
(***************************************************************************)
MaxKids == 2

TextNode(s) ==
    [type |-> "text", tag |-> "", text |-> s, kids |-> <<>>, href |-> NoHref]
ElementNode(tag, kids, href) ==
    [type |-> "element", tag |-> tag, text |-> <<>>, kids |-> kids, href |-> href]

MdTags ==
    {"p", "h2", "h3", "a", "ul", "li", "blockquote",
     "strong", "b", "em", "i", "div"}

Hello == <<"H", "e", "l", "l", "o">>
TextPool == { Hello, <<SP, "a", NL, "b", SP>> }
RelHref == [base |-> "", path |-> "/news/x"]

\* the hrefs an element of the pool has: only an anchor has one, or none
HrefsOf(tag) == IF tag = "a" THEN {NoHref, RelHref} ELSE {NoHref}

TextNodes == {TextNode(t) : t \in TextPool}
\* elements that hold no child or one text
InnerNodes ==
    UNION { {ElementNode(tag, kids, h) : h \in HrefsOf(tag)}
            : tag \in MdTags, kids \in {<<>>} \cup {<<n>> : n \in TextNodes} }
\* elements that hold up to MaxKids children, texts or inner elements
OuterNodes ==
    UNION { {ElementNode(tag, kids, h) : h \in HrefsOf(tag)}
            : tag \in MdTags,
              kids \in UNION {[1..n -> TextNodes \cup InnerNodes] : n \in 0..MaxKids} }
NodeTrees == TextNodes \cup InnerNodes \cup OuterNodes

\* "".join(parts)
RECURSIVE Concat(_)
Concat(parts) ==
    IF parts = <<>> THEN <<>> ELSE Head(parts) \o Concat(Tail(parts))

\* str.split("\n"): the pieces between the newlines, one piece at least
RECURSIVE SplitLines(_)
SplitLines(s) ==
    IF \A i \in DOMAIN s : s[i] # NL THEN <<s>>
    ELSE LET i == CHOOSE k \in DOMAIN s :
                     s[k] = NL /\ \A m \in 1..(k - 1) : s[m] # NL
         IN <<SubSeq(s, 1, i - 1)>> \o SplitLines(SubSeq(s, i + 1, Len(s)))

\* a plausible slip: only the first line of a quote gets its mark
QuoteLines_firstLineOnly(lines) ==
    <<">", SP>> \o Concat([i \in DOMAIN lines |-> lines[i] \o <<NL>>])

\* "".join(f"> {line}\n" for line in lines)
QuoteLines(lines) ==
    Concat([i \in DOMAIN lines |-> <<">", SP>> \o lines[i] \o <<NL>>])

\* a plausible slip: the base of a relative link is settled once the
\* program has run for a while, and is missing before
UrlChars_lateBase(href) ==
    IF AbsUrl(href) = NoHref THEN <<>>
    ELSE IF clock = 0 /\ href.base = "" THEN <<href.path>>
    ELSE <<AbsUrl(href).base \o AbsUrl(href).path>>

\* the characters of _abs_url(href)
UrlChars(href) ==
    IF AbsUrl(href) = NoHref THEN <<>>
    ELSE <<AbsUrl(href).base \o AbsUrl(href).path>>

\* a plausible slip: the item of a list is not trimmed
RenderTag_liUntrimmed(tag, child, href) ==
    CASE tag = "p" -> Strip(child) \o <<NL, NL>>
      [] tag = "h2" -> <<"#", "#", SP>> \o Strip(child) \o <<NL, NL>>
      [] tag = "h3" -> <<"#", "#", "#", SP>> \o Strip(child) \o <<NL, NL>>
      [] tag = "a" -> <<"[">> \o child \o <<"]", "(">> \o UrlChars(href) \o <<")">>
      [] tag = "ul" -> child \o <<NL>>
      [] tag = "li" -> <<"-", SP>> \o child \o <<NL>>
      [] tag = "blockquote" -> QuoteLines(SplitLines(Strip(child))) \o <<NL>>
      [] tag \in {"strong", "b"} -> <<"*", "*">> \o child \o <<"*", "*">>
      [] tag \in {"em", "i"} -> <<"*">> \o child \o <<"*">>
      [] OTHER -> child

\* tag_map.get(tag, child_content)
RenderTag(tag, child, href) ==
    CASE tag = "p" -> Strip(child) \o <<NL, NL>>
      [] tag = "h2" -> <<"#", "#", SP>> \o Strip(child) \o <<NL, NL>>
      [] tag = "h3" -> <<"#", "#", "#", SP>> \o Strip(child) \o <<NL, NL>>
      [] tag = "a" -> <<"[">> \o child \o <<"]", "(">> \o UrlChars(href) \o <<")">>
      [] tag = "ul" -> child \o <<NL>>
      [] tag = "li" -> <<"-", SP>> \o Strip(child) \o <<NL>>
      [] tag = "blockquote" -> QuoteLines(SplitLines(Strip(child))) \o <<NL>>
      [] tag \in {"strong", "b"} -> <<"*", "*">> \o child \o <<"*", "*">>
      [] tag \in {"em", "i"} -> <<"*">> \o child \o <<"*">>
      [] OTHER -> child

\* _parse_json_node_to_markdown: a text node gives its content; an element
\* gives what the tag makes of the joined renderings of its children
RECURSIVE ParseJsonNodeToMarkdown(_)
ParseJsonNodeToMarkdown(node) ==
    IF node.type = "text" THEN node.text
    ELSE RenderTag(node.tag,
                   Concat([i \in DOMAIN node.kids |->
                              ParseJsonNodeToMarkdown(node.kids[i])]),
                   node.href)

RenderCall ==
    /\ op.name = "none"
    /\ \E node \in NodeTrees :
          op' = [name |-> "render", pc |-> "done", node |-> node,
                 out |-> ParseJsonNodeToMarkdown(node)]
    /\ UNCHANGED <<fetch, cacheVars>>

InitRender ==
    /\ fetch = [c \in Calls |-> FetchIdle]
    /\ op = NoOp
    /\ CacheUnused

NextRender == RenderCall \/ OpReturn

SpecRender == InitRender /\ [][NextRender]_vars

(***************************************************************************)
(* The node a rendering was made of, and the joined renderings of its      *)
(* children.                                                               *)
(***************************************************************************)
Rendered == op.name = "render"
KidsOut ==
    Concat([i \in DOMAIN op.node.kids |-> ParseJsonNodeToMarkdown(op.node.kids[i])])

(***************************************************************************)
(* C19: the rendering of a node follows the tag-dispatch table.  A text    *)
(* node gives its literal text; p the trimmed children and two newlines;   *)
(* h2 and h3 '## ' and '### ', the trimmed children and two newlines; a    *)
(* '[children](absolute href)'; ul the children and one newline; li '- ',  *)
(* the trimmed children and one newline; strong and b '**children**'; em   *)
(* and i '*children*'; any tag the table does not name, the children as    *)
(* they are.                                                               *)
(***************************************************************************)
C19_TagDispatchTable ==
    Rendered =>
        LET n == op.node
            kids == KidsOut
            url == IF n.href = NoHref THEN <<>>
                   ELSE IF n.href.base # "" THEN <<n.href.base \o n.href.path>>
                   ELSE <<DOMAIN_BASE \o n.href.path>>
        IN /\ n.type = "text" => op.out = n.text
           /\ (n.type # "text" /\ n.tag = "p") => op.out = Strip(kids) \o <<NL, NL>>
           /\ (n.type # "text" /\ n.tag = "h2") =>
                 op.out = <<"#", "#", SP>> \o Strip(kids) \o <<NL, NL>>
           /\ (n.type # "text" /\ n.tag = "h3") =>
                 op.out = <<"#", "#", "#", SP>> \o Strip(kids) \o <<NL, NL>>
           /\ (n.type # "text" /\ n.tag = "a") =>
                 op.out = <<"[">> \o kids \o <<"]", "(">> \o url \o <<")">>
           /\ (n.type # "text" /\ n.tag = "ul") => op.out = kids \o <<NL>>
           /\ (n.type # "text" /\ n.tag = "li") =>
                 op.out = <<"-", SP>> \o Strip(kids) \o <<NL>>
           /\ (n.type # "text" /\ n.tag \in {"strong", "b"}) =>
                 op.out = <<"*", "*">> \o kids \o <<"*", "*">>
           /\ (n.type # "text" /\ n.tag \in {"em", "i"}) =>
                 op.out = <<"*">> \o kids \o <<"*">>
           /\ (n.type # "text" /\ n.tag = "div") => op.out = kids

\* the tree {element, p, [text 'Hello']} rendered to 'Hello' and two newlines
C19_Witness ==
    /\ Rendered
    /\ op.node = ElementNode("p", <<TextNode(Hello)>>, NoHref)
    /\ op.out = <<"H", "e", "l", "l", "o", NL, NL>>

(***************************************************************************)
(* C20 as stated: a blockquote renders to each line of the trimmed         *)
(* rendering of its children prefixed with '> ', and the rendering ends    *)
(* with exactly one newline.                                               *)
(***************************************************************************)
IsBlockquote == Rendered /\ op.node.type # "text" /\ op.node.tag = "blockquote"

C20_BlockquoteOneNewline ==
    IsBlockquote =>
        LET lines == SplitLines(Strip(KidsOut))
            n == Len(op.out)
        IN /\ op.out[n] = NL
           /\ n >= 2 => op.out[n - 1] # NL
           /\ SplitLines(SubSeq(op.out, 1, n - 1))
                 = [i \in DOMAIN lines |-> <<">", SP>> \o lines[i]]

(***************************************************************************)
(* C20 amended: a blockquote renders to each line of the trimmed rendering *)
(* of its children prefixed with '> ' and ended by a newline, followed by  *)
(* one more newline: the rendering ends with two newlines.                 *)
(***************************************************************************)
C20_BlockquoteLinesThenNewline ==
    IsBlockquote =>
        LET lines == SplitLines(Strip(KidsOut))
            n == Len(op.out)
        IN /\ n >= 4
           /\ op.out[n] = NL /\ op.out[n - 1] = NL /\ op.out[n - 2] # NL
           /\ SplitLines(SubSeq(op.out, 1, n - 2))
                 = [i \in DOMAIN lines |-> <<">", SP>> \o lines[i]]

\* a quote of two lines
C20_Witness ==
    /\ IsBlockquote
    /\ op.node.kids = <<TextNode(<<SP, "a", NL, "b", SP>>)>>
    /\ op.out = <<">", SP, "a", NL, ">", SP, "b", NL, NL>>

(***************************************************************************)
(* Rendering from concurrent tasks, at any time.  Each task renders a node *)
(* tree when it pleases, while the clock moves, and keeps what it got.     *)
(***************************************************************************)
NoNode == TextNode(<<>>)
\* the trees the tasks render: texts, and links, paragraphs and quotes
SharedTrees ==
    TextNodes \cup {n \in InnerNodes : n.tag \in {"a", "p", "blockquote"}}

RendersIdle ==
    [name |-> "renders", node |-> [c \in Calls |-> NoNode],
     out |-> [c \in Calls |-> <<>>], at |-> [c \in Calls |-> 0],
     has |-> [c \in Calls |-> FALSE]]

RenderBy(c) ==
    /\ ~op.has[c]
    /\ \E node \in SharedTrees :
          op' = [op EXCEPT !.node[c] = node, !.has[c] = TRUE, !.at[c] = clock,
                           !.out[c] = ParseJsonNodeToMarkdown(node)]
    /\ UNCHANGED <<fetch, cacheVars>>

\* the task drops its result and is ready to render again
RenderDrop(c) ==
    /\ op.has[c]
    /\ op' = [op EXCEPT !.node[c] = NoNode, !.has[c] = FALSE, !.at[c] = 0,
                        !.out[c] = <<>>]
    /\ UNCHANGED <<fetch, cacheVars>>

InitRenders ==
    /\ fetch = [c \in Calls |-> FetchIdle]
    /\ op = RendersIdle
    /\ CacheUnused

NextRenders ==
    \/ Tick
    \/ \E c \in Calls : RenderBy(c) \/ RenderDrop(c)

SpecRenders == InitRenders /\ [][NextRenders]_vars

PiecesButFlag(a) ==
    IF a.spanAt = 0 THEN a.pieces
    ELSE SubSeq(a.pieces, 1, a.spanAt - 1)
            \o SubSeq(a.pieces, a.spanAt + 1, Len(a.pieces))

(***************************************************************************)
(* C22 as stated: the story made of an anchor has the text of the anchor's *)
(* flag element as flag, null when there is none; as title the visible     *)
(* text of the anchor other than the flag element's, trimmed, left intact  *)
(* where it contains the flag's text; and as summary the text of the       *)
(* paragraph that follows the anchor.                                      *)
(***************************************************************************)
C22_FlagTitleSummary ==
    CbcStoriesParsed =>
        LET elems == op.listing.elems
            res == op.result
            first(u) == FirstOf({i \in Yielding(elems) : AbsUrl(elems[i].href) = u})
        IN \A i \in DOMAIN res :
              LET k == first(res[i].url)
                  a == elems[k]
              IN /\ res[i].flag =
                       (IF a.spanAt = 0 THEN None ELSE Strip(a.pieces[a.spanAt]))
                 /\ res[i].title = GetText(PiecesButFlag(a), <<SP>>)
                 /\ res[i].summary = SummaryOf(elems, k)

(***************************************************************************)
(* C23: for both adapters and every story get_stories returns, read is     *)
(* true exactly when the url of the story is in read_articles and          *)
(* bookmarked exactly when some bookmark record has that url; with an      *)
(* empty read set and no bookmark every story has both flags false.        *)
(***************************************************************************)
StoriesReturned ==
    op.name \in {"cbc_get_stories", "rss_get_stories"} /\ op.pc = "done"

C23_ReadAndBookmarkedFlags ==
    StoriesReturned =>
        \A i \in DOMAIN op.result :
            LET s == op.result[i]
            IN /\ s.read <=> s.url \in op.readSet
               /\ s.bookmarked <=>
                     \E b \in DOMAIN op.bookmarks : op.bookmarks[b].url = s.url
               /\ (op.readSet = {} /\ op.bookmarks = <<>>) =>
                     (~s.read /\ ~s.bookmarked)

\* a feed of two stories, the first one read and the second one bookmarked
C23_Witness ==
    /\ op.name = "rss_get_stories" /\ op.pc = "done"
    /\ Len(op.result) = 2
    /\ op.result[1].read /\ ~op.result[1].bookmarked
    /\ ~op.result[2].read /\ op.result[2].bookmarked

(***************************************************************************)
(* C26 as stated: RSSSource.get_stories returns no two stories with equal  *)
(* url, and of the entries that carry one link it keeps the first.         *)
(***************************************************************************)
C26_FeedStoriesUnique ==
    (op.name = "rss_get_stories" /\ op.pc = "done") =>
        LET res == op.result
            entries == ParsedEntries(op.feed)
        IN /\ \A i, j \in DOMAIN res : i # j => res[i].url # res[j].url
           /\ \A i \in DOMAIN res :
                 \E k \in DOMAIN entries :
                    /\ entries[k].link = res[i].url
                    /\ entries[k].title = res[i].title
                    /\ \A m \in 1..(k - 1) : entries[m].link # res[i].url

(***************************************************************************)
(* C24: get_sections of the feed adapter returns one section for each      *)
(* entry of the configured feed map, titled by the name and pointing at    *)
(* the feed URL, in the order of the configuration, and makes no network   *)
(* request.                                                                *)
(***************************************************************************)
C24_FeedSectionsAreTheFeedMap ==
    op.name = "rss_get_sections" =>
        /\ Len(op.result) = Len(op.feeds)
        /\ \A i \in DOMAIN op.feeds :
              /\ op.result[i].title = op.feeds[i].name
              /\ op.result[i].url = op.feeds[i].url
        /\ \A c \in Calls : fetch[c].pc = "idle" /\ fetch[c].requests = 0

\* two feeds, configured in the order F2, F1
C24_Witness ==
    /\ op.name = "rss_get_sections" /\ op.pc = "done"
    /\ op.feeds = <<[name |-> <<"F", "2">>, url |-> FeedUrl2],
                    [name |-> <<"F", "1">>, url |-> FeedUrl1]>>
    /\ op.result = <<[title |-> <<"F", "2">>, url |-> FeedUrl2],
                     [title |-> <<"F", "1">>, url |-> FeedUrl1]>>

(***************************************************************************)
(* C25: get_story_content of the feed adapter parses the feed of the       *)
(* section again and uses the entry whose link is the url of the story     *)
(* (the first such entry that has a content or a summary): the text comes  *)
(* from the content when the entry has both, from the summary when it has  *)
(* only that, and when no entry of the feed has the link the result is     *)
(* not ok.                                                                 *)
(***************************************************************************)
C25_FeedContentPreferred ==
    RssContentDone =>
        LET entries == ParsedEntries(op.feed)
            usable == {i \in DOMAIN entries :
                          /\ "link" \in entries[i].keys /\ entries[i].link = op.url
                          /\ entries[i].keys \cap {"content", "summary"} # {}}
            linked == {i \in DOMAIN entries :
                          "link" \in entries[i].keys /\ entries[i].link = op.url}
        IN /\ linked = {} => ~op.result.ok
           /\ usable # {} =>
                 LET e == entries[FirstOf(usable)]
                 IN /\ op.result.ok
                    /\ "content" \in e.keys =>
                          op.result.content = PlainText(<<JoinLines(e.content)>>)
                    /\ "content" \notin e.keys =>
                          op.result.content = PlainText(e.summary)

\* the entry of the story has a content and a summary: the content is used
C25_Witness ==
    /\ RssContentDone
    /\ op.url = FeedUrl1
    /\ \E i \in DOMAIN ParsedEntries(op.feed) :
          /\ ParsedEntries(op.feed)[i].keys = {"title", "link", "summary", "content"}
          /\ \A m \in 1..(i - 1) : ParsedEntries(op.feed)[m].link # FeedUrl1
    /\ op.result = [ok |-> TRUE, kind |-> "feed", content |-> <<"C">>]

(***************************************************************************)
(* Construction of the adapter.  The code has two registries: SOURCES with *)
(* the function get_source (source_manager.py), and AVAILABLE_SOURCES with *)
(* the class SourceManager (sources/manager.py), which is the one the      *)
(* application uses.  A configuration is the name under "source", if any,  *)
(* and the names under "sources".                                          *)
(***************************************************************************)
SourceNames == {"cbc", "rss", "foo"}
NoSourceName == "absent"
NoAdapter == "none"
SOURCES == {"cbc", "rss"}
AVAILABLE_SOURCES == {"cbc"}

SourceConfigs == [source : SourceNames \cup {NoSourceName}, sources : SUBSET SourceNames]

\* get_source(config): ValueError for a name SOURCES does not have
GetSource ==
    /\ op.name = "none"
    /\ \E cfg \in SourceConfigs :
          LET source_name == IF cfg.source = NoSourceName THEN "cbc" ELSE cfg.source
          IN op' = [name |-> "registry", via |-> "get_source", config |-> cfg,
                    pc |-> IF source_name \in SOURCES THEN "done" ELSE "raised",
                    adapter |-> IF source_name \in SOURCES THEN source_name
                                ELSE NoAdapter,
                    errorScreen |-> FALSE]
    /\ UNCHANGED <<fetch, cacheVars>>

\* SourceManager._load_sources: the registered names the configuration has;
\* any other configured name is passed over
LoadSources(cfg) == {n \in AVAILABLE_SOURCES : n \in cfg.sources}

\* NewsApp.__init__: self.source = sources[0] if sources else None
NewsAppInit ==
    /\ op.name = "none"
    /\ \E cfg \in SourceConfigs :
          op' = [name |-> "registry", via |-> "app", config |-> cfg,
                 pc |-> "constructed",
                 adapter |-> IF LoadSources(cfg) = {} THEN NoAdapter
                             ELSE CHOOSE n \in LoadSources(cfg) : TRUE,
                 errorScreen |-> FALSE]
    /\ UNCHANGED <<fetch, cacheVars>>

\* on_mount: without a source the error screen is pushed and the rest of
\* on_mount is skipped; the application runs on
NewsAppMount ==
    /\ op.name = "registry" /\ op.via = "app" /\ op.pc = "constructed"
    /\ op' = [op EXCEPT !.pc = "running", !.errorScreen = (op.adapter = NoAdapter)]
    /\ UNCHANGED <<fetch, cacheVars>>

\* on_settings_closed: run_worker(self.source.get_sections), which raises
\* AttributeError when self.source is None
NewsAppSettingsClosed ==
    /\ op.name = "registry" /\ op.via = "app" /\ op.pc = "running"
    /\ op' = [op EXCEPT !.pc = IF op.adapter = NoAdapter THEN "raised"
                               ELSE "reloaded"]
    /\ UNCHANGED <<fetch, cacheVars>>

\* the section worker has started; the application runs on
NewsAppReloaded ==
    /\ op.name = "registry" /\ op.via = "app" /\ op.pc = "reloaded"
    /\ op' = [op EXCEPT !.pc = "running"]
    /\ UNCHANGED <<fetch, cacheVars>>

InitRegistry ==
    /\ fetch = [c \in Calls |-> FetchIdle]
    /\ op = NoOp
    /\ CacheUnused

NextRegistry ==
    \/ GetSource
    \/ NewsAppInit
    \/ NewsAppMount
    \/ NewsAppSettingsClosed
    \/ NewsAppReloaded
    \/ OpReturn

SpecRegistry == InitRegistry /\ [][NextRegistry]_vars

(***************************************************************************)
(* C27 as stated: a configured source name that is not registered makes    *)
(* the construction fail at once with an error, no adapter being returned; *)
(* a registered name gives the adapter of that variant; the application    *)
(* never runs without an adapter after an unknown name was configured.     *)
(***************************************************************************)
C27_UnknownSourceFailsConstruction ==
    op.name = "registry" =>
        /\ op.via = "get_source" =>
              LET n == IF op.config.source = NoSourceName THEN "cbc"
                       ELSE op.config.source
              IN /\ n \notin SOURCES => (op.pc = "raised" /\ op.adapter = NoAdapter)
                 /\ n \in SOURCES => (op.pc = "done" /\ op.adapter = n)
        /\ op.via = "app" =>
              /\ (op.config.sources \ AVAILABLE_SOURCES # {}) =>
                    (op.pc = "raised" /\ op.adapter = NoAdapter)
              /\ op.adapter # NoAdapter => op.adapter \in op.config.sources
              /\ ~(/\ op.pc \in {"running", "reloaded"}
                   /\ op.adapter = NoAdapter
                   /\ op.config.sources # {})

(***************************************************************************)
(* The anchors of page p that get_sections went through: all of them, or   *)
(* those before the one at which the parse raised, or none when the page   *)
(* could not be fetched.                                                   *)
(***************************************************************************)
AnchorsSeen(p) ==
    IF op.contents[p] # "doc" THEN <<>>
    ELSE IF op.docs[p].raisesAt = 0 THEN op.docs[p].anchors
    ELSE SubSeq(op.docs[p].anchors, 1, op.docs[p].raisesAt - 1)

(***************************************************************************)
(* C28: the list get_sections returns starts with Home, followed by the    *)
(* discovered sections in the order of their first appearance, the home    *)
(* page before the sections page and document order within a page; of the  *)
(* anchors with one title the first seen is kept, with its url.            *)
(***************************************************************************)
C28_SectionsInOrderFirstWins ==
    SectionsDone =>
        /\ Len(op.contents) = 2
        /\ op.result =
              <<HomeSection>> \o FirstTitles(AnchorsSeen(1) \o AnchorsSeen(2),
                                             op.allowed, {})
        /\ \A i \in 2..Len(op.result) :
              LET all == AnchorsSeen(1) \o AnchorsSeen(2)
                  mine == {k \in DOMAIN all :
                              /\ Qualifies(all[k], op.allowed)
                              /\ Strip(all[k].text) = op.result[i].title}
              IN /\ mine # {}
                 /\ op.result[i].url = AbsUrl(all[FirstOf(mine)].href)
                 /\ \A j \in 2..Len(op.result) :
                       i < j =>
                          FirstOf(mine) <
                             FirstOf({k \in DOMAIN all :
                                         /\ Qualifies(all[k], op.allowed)
                                         /\ Strip(all[k].text) = op.result[j].title})

\* both pages list the section W: the one of the home page is kept
C28_Witness ==
    /\ SectionsDone
    /\ op.contents = <<"doc", "doc">>
    /\ op.docs[1].raisesAt = 0 /\ op.docs[2].raisesAt = 0
    /\ Len(op.docs[1].anchors) = 1
    /\ AbsUrl(op.docs[1].anchors[1].href).path = "/lite/world"
    /\ Len(op.docs[2].anchors) = 2
    /\ op.docs[2].anchors[1].href.path = "/lite/world/2"
    /\ op.docs[2].anchors[2].href.path = "/lite/canada"
    /\ Len(op.result) = 3
    /\ op.result[2].url.path = "/lite/world"
    /\ op.result[3].url.path = "/lite/canada"

(***************************************************************************)
(* C29: an entry is valid iff now - storedAt <= ttl.  For an entry stored  *)
(* at time t and left alone, a get returns a value at every time now with  *)
(* now - t <= ttl, the instant now - t = ttl included, and absent at every *)
(* time with now - t > ttl.                                                *)
(***************************************************************************)
C29_ValidIffWithinTtl ==
    \A t \in Tasks :
        (GetReturned(t) /\ task[t].seenLast.state = "entry") =>
            (task[t].ret # NoneV <=> task[t].tnow - task[t].seenLast.ts <= TTL)

\* a list stored at time 0 is there at time TTL for one task and gone one
\* tick later for the other
C29_Witness ==
    \E t1, t2 \in Tasks :
        /\ GetReturned(t1) /\ GetReturned(t2)
        /\ task[t1].seenLast = LastEntry(TupleA, 0)
        /\ task[t2].seenLast = LastEntry(TupleA, 0)
        /\ task[t1].tnow = TTL /\ task[t1].ret = ListA
        /\ task[t2].tnow = TTL + 1 /\ task[t2].ret = NoneV

(***************************************************************************)
(* C30: get changes nothing in the store.  No step of a get (a hit, a      *)
(* miss, an expired or an unreadable entry) changes the files of the       *)
(* cache; an expired entry stays on disk.                                  *)
(***************************************************************************)
GetStep(t) ==
    \/ task[t].pc = "idle" /\ task'[t].pc = "get_exists"
    \/ task[t].pc \in {"get_exists", "get_read"} /\ task'[t] # task[t]

C30_GetLeavesStoreAlone ==
    [][(\E t \in Tasks : GetStep(t)) => files' = files]_vars

\* a get found the entry expired and the entry is still in its file
C30_Witness ==
    \E t \in Tasks :
        /\ GetReturned(t)
        /\ task[t].seenLast = LastEntry(StrA, 0)
        /\ task[t].tnow = TTL + 1 /\ task[t].ret = NoneV
        /\ files[CachePath(task[t].key)] =
              [exists |-> TRUE, data |-> JsonChunks(0, StrA)]

(***************************************************************************)
(* C31: the paragraph scrape returns ok:true with its candidate text iff   *)
(* the text is non-empty, has at least MIN_ARTICLE_WORDS words and does    *)
(* not match the placeholder vocabulary; in every other case the call ends *)
(* in the could-not-extract failure.                                       *)
(***************************************************************************)
ScrapeRan == ContentDone /\ op.name = "cbc_get_story_content" /\ "paragraph" \in op.ran

CandidateAccepted ==
    /\ op.page.paraWords > 0
    /\ op.page.paraWords >= MIN_ARTICLE_WORDS
    /\ ~op.page.paraPlaceholder

C31_ScrapeAcceptsIffArticleText ==
    ScrapeRan =>
        /\ CandidateAccepted =>
              op.result = [ok |-> TRUE, kind |-> "paragraph",
                           words |-> op.page.paraWords]
        /\ ~CandidateAccepted => op.result = NoContent

\* a candidate of exactly MIN_ARTICLE_WORDS words with no placeholder word
\* is returned
C31_Witness ==
    /\ ScrapeRan
    /\ op.page.paraWords = MIN_ARTICLE_WORDS /\ ~op.page.paraPlaceholder
    /\ op.result.ok

(***************************************************************************)
(* The worker the UI runs an adapter call in (run_worker, thread=True):    *)
(* its state is ERROR when the callable raised, SUCCESS when it returned.  *)
(***************************************************************************)
WorkerStateOf(o) ==
    IF o.name = "none" THEN "PENDING"
    ELSE IF o.pc = "raised" THEN "ERROR"
    ELSE IF o.pc = "done" THEN "SUCCESS"
    ELSE "RUNNING"

(***************************************************************************)
(* C32 as stated: no error crosses the adapter boundary on the paths the   *)
(* UI uses; a headlines task that calls get_stories never reaches the      *)
(* worker ERROR state, it ends in SUCCESS with a list of stories.          *)
(***************************************************************************)
C32_TasksEndInSuccess ==
    op.name \in {"cbc_get_stories", "rss_get_stories"} =>
        WorkerStateOf(op) # "ERROR"

(***************************************************************************)
(* C33 as stated: the summary of a story comes only from the element next  *)
(* to its own anchor; a story whose anchor is not immediately followed by  *)
(* a paragraph has summary null.                                           *)
(***************************************************************************)
AnchorOf(elems, url) ==
    FirstOf({i \in Yielding(elems) : AbsUrl(elems[i].href) = url})

C33_SummaryFromAdjacentBlock ==
    CbcStoriesParsed =>
        \A k \in DOMAIN op.result :
            LET elems == op.listing.elems
                i == AnchorOf(elems, op.result[k].url)
            IN (i = Len(elems) \/ elems[i + 1].tag # "p") =>
                   op.result[k].summary = None

(***************************************************************************)
(* C34: the fetcher keeps nothing between calls and shares nothing between *)
(* calls that run at the same time.  A call that starts, whatever the      *)
(* other calls did or are doing, starts at attempt 1 with its whole budget *)
(* and the initial delay, and a step of one call changes the attempts and  *)
(* waits of no other call.                                                 *)
(***************************************************************************)
StartsAfresh(c) ==
    (fetch[c].pc = "idle" /\ fetch'[c].pc # "idle") =>
        /\ fetch'[c].attempt = 1
        /\ fetch'[c].delay = INITIAL_RETRY_DELAY
        /\ fetch'[c].requests = 0 /\ fetch'[c].failures = 0
        /\ fetch'[c].sleeps = <<>>

LeavesOthersAlone(c) ==
    fetch'[c] # fetch[c] => \A d \in Calls \ {c} : fetch'[d] = fetch[d]

C34_CallsShareNothing ==
    [][\A c \in Calls : StartsAfresh(c) /\ LeavesOthersAlone(c)]_vars

\* one call has used up its budget, its delay doubled on the way, and another
\* is at its first attempt with the initial delay
C34_Witness ==
    \E c, d \in Calls :
        /\ c # d
        /\ fetch[d].pc = "returned" /\ fetch[d].attempts >= 2
        /\ fetch[d].failures = fetch[d].attempts
        /\ fetch[d].delay > INITIAL_RETRY_DELAY
        /\ fetch[c].pc = "attempt" /\ fetch[c].attempt = 1
        /\ fetch[c].attempts = MaxAttempts
        /\ fetch[c].delay = INITIAL_RETRY_DELAY /\ fetch[c].requests = 0

(***************************************************************************)
(* C35: _retryable_fetch stops at the first attempt that succeeds.  A call *)
(* that returns the body of a response at attempt i has made i requests,   *)
(* the i-1 before it all failures, and i-1 waits; once it has returned it  *)
(* makes no further request and no further wait.                           *)
(***************************************************************************)
ReturnedResponse(c) == fetch[c].pc = "returned" /\ fetch[c].status # 0

StoppedAtFirstSuccess ==
    \A c \in Calls :
        ReturnedResponse(c) =>
            /\ fetch[c].attempt <= fetch[c].attempts
            /\ fetch[c].result \in Bodies
            /\ fetch[c].requests = fetch[c].attempt
            /\ fetch[c].failures = fetch[c].attempt - 1
            /\ Len(fetch[c].sleeps) = fetch[c].attempt - 1

NothingAfterReturn ==
    \A c \in Calls :
        ReturnedResponse(c) => (fetch'[c] = fetch[c] \/ fetch'[c] = FetchIdle)

C35_StopsAtFirstSuccess ==
    []StoppedAtFirstSuccess /\ [][NothingAfterReturn]_vars

\* the third attempt is the first to succeed: three requests, two waits
C35_Witness ==
    \E c \in Calls :
        /\ ReturnedResponse(c)
        /\ fetch[c].attempts = MaxAttempts /\ fetch[c].attempt = 3
        /\ fetch[c].status = 200 /\ fetch[c].result = "doc"
        /\ fetch[c].requests = 3 /\ Len(fetch[c].sleeps) = 2

(***************************************************************************)
(* C36 as stated: the list get_sections returns, the prepended Home entry  *)
(* included, holds no two sections with the same title and no two with the *)
(* same url, also when a page links a section titled Home or links the     *)
(* home url.                                                               *)
(***************************************************************************)
C36_SectionsUniqueByTitleAndUrl ==
    SectionsDone =>
        \A i, j \in DOMAIN op.result :
            i # j => /\ op.result[i].title # op.result[j].title
                     /\ op.result[i].url # op.result[j].url

(***************************************************************************)
(* Fetcher.get_stories_for_meta_section.  The sections to fetch are        *)
(* numbered in the order of their submission to the executor; each future  *)
(* ends with the list get_stories returned, or with an exception.  A story *)
(* is its url and the section it was listed in.  as_completed hands the    *)
(* futures over in the order they complete.                                *)
(***************************************************************************)
MaxMetaSections == 2

MetaUrls == {"u1", "u2"}
MetaStory(u, s) == [url |-> u, section |-> s]
Returned(stories) == [raised |-> FALSE, stories |-> stories]
Raises == [raised |-> TRUE, stories |-> <<>>]

\* what the future of section s can end with
MetaOutcomes(s) ==
    {Raises, Returned(<<>>)}
    \cup {Returned(<<MetaStory(u, s)>>) : u \in MetaUrls}
    \cup {Returned(<<MetaStory(p[1], s), MetaStory(p[2], s)>>) :
             p \in {q \in MetaUrls \X MetaUrls : q[1] # q[2]}}

\* the body of the as_completed loop for one future: future.result() raises
\* into the except, else each story with a url not yet seen is appended
RECURSIVE MergeStories(_, _)
MergeStories(all, out) ==
    IF out.raised \/ out.stories = <<>> THEN all
    ELSE LET s == Head(out.stories)
             seen == {all[k].url : k \in DOMAIN all}
         IN MergeStories(IF s.url \notin seen THEN Append(all, s) ELSE all,
                         Returned(Tail(out.stories)))

\* the futures are submitted and run
MetaCall ==
    /\ op.name = "none"
    /\ \E n \in 0..MaxMetaSections :
          \E outs \in [1..n -> UNION {MetaOutcomes(s) : s \in 1..n}] :
              /\ \A s \in 1..n : outs[s] \in MetaOutcomes(s)
              /\ op' = [name |-> "meta_stories", pc |-> "merging",
                        outcomes |-> outs, pending |-> 1..n,
                        completed |-> <<>>, all_stories |-> <<>>,
                        result |-> <<>>]
    /\ UNCHANGED <<fetch, cacheVars>>

\* the next future to complete is handed over and merged
MetaYield ==
    /\ op.name = "meta_stories" /\ op.pc = "merging"
    /\ \E s \in op.pending :
          op' = [op EXCEPT !.pending = @ \ {s},
                           !.completed = Append(@, s),
                           !.all_stories = MergeStories(@, op.outcomes[s])]
    /\ UNCHANGED <<fetch, cacheVars>>

\* return all_stories
MetaReturn ==
    /\ op.name = "meta_stories" /\ op.pc = "merging"
    /\ op.pending = {}
    /\ op' = [op EXCEPT !.pc = "done", !.result = op.all_stories]
    /\ UNCHANGED <<fetch, cacheVars>>

InitMeta ==
    /\ fetch = [c \in Calls |-> FetchIdle]
    /\ op = NoOp
    /\ CacheUnused

NextMeta == MetaCall \/ MetaYield \/ MetaReturn \/ OpReturn

SpecMeta == InitMeta /\ [][NextMeta]_vars

(***************************************************************************)
(* C37 as stated: the merged list is the same for every order in which the *)
(* section fetches complete: it is the list the merge gives when the       *)
(* futures are taken in the order of their submission, it has no two       *)
(* stories with equal url, and a section that raised takes nothing away.   *)
(***************************************************************************)
RECURSIVE MergeInOrder(_, _, _)
MergeInOrder(all, outs, s) ==
    IF s > Len(outs) THEN all
    ELSE MergeInOrder(MergeStories(all, outs[s]), outs, s + 1)

MetaDone == op.name = "meta_stories" /\ op.pc = "done"

C37_MergeIndependentOfCompletionOrder ==
    MetaDone =>
        /\ op.result = MergeInOrder(<<>>, op.outcomes, 1)
        /\ \A i, j \in DOMAIN op.result :
              i # j => op.result[i].url # op.result[j].url
        /\ \A s \in DOMAIN op.outcomes :
              ~op.outcomes[s].raised =>
                  \A k \in DOMAIN op.outcomes[s].stories :
                      op.outcomes[s].stories[k].url \in
                          {op.result[i].url : i \in DOMAIN op.result}

(***************************************************************************)
(* The headline list of NewsApp.  Every load starts a thread worker named  *)
(* headlines_loader (run_worker without exclusive, so the earlier workers  *)
(* keep running); a worker that ends in SUCCESS is handled by              *)
(* _handle_headlines_loaded, one that ends in ERROR by                     *)
(* _handle_headlines_error.  The stories of a section are named by the     *)
(* section they were fetched for.                                          *)
(***************************************************************************)
MaxLoads == 3

AppSections == <<"A", "B">>
NoSection == "none"
StoriesOf(section) == <<[listedIn |-> section]>>

HeadlinesIdle ==
    [name |-> "headlines", current_section |-> NoSection, workers |-> <<>>,
     stories |-> <<>>, shown |-> "empty"]

\* _initiate_headline_load: the list is cleared, the loading indicator is
\* mounted and a worker is started for the section
InitiateHeadlineLoad(o, section) ==
    [o EXCEPT !.workers = Append(@, [section |-> section, state |-> "RUNNING"]),
              !.shown = "loading"]

\* _handle_sections_loaded: the first section becomes the current one and
\* its headlines are loaded
HandleSectionsLoaded ==
    /\ op.name = "headlines" /\ op.current_section = NoSection
    /\ Len(op.workers) < MaxLoads
    /\ op' = InitiateHeadlineLoad(
                 [op EXCEPT !.current_section = AppSections[1]], AppSections[1])
    /\ UNCHANGED <<fetch, cacheVars>>

\* on_list_view_selected on the sections list
OnSectionSelected ==
    /\ op.name = "headlines" /\ op.current_section # NoSection
    /\ Len(op.workers) < MaxLoads
    /\ \E i \in DOMAIN AppSections :
          op' = InitiateHeadlineLoad(
                    [op EXCEPT !.current_section = AppSections[i]], AppSections[i])
    /\ UNCHANGED <<fetch, cacheVars>>

\* action_refresh
ActionRefresh ==
    /\ op.name = "headlines" /\ op.current_section # NoSection
    /\ Len(op.workers) < MaxLoads
    /\ op' = InitiateHeadlineLoad(op, op.current_section)
    /\ UNCHANGED <<fetch, cacheVars>>

\* on_worker_state_changed, SUCCESS: _handle_headlines_loaded takes the
\* result of the worker as the stories of the app and shows them
HandleHeadlinesLoaded(o, w) ==
    [o EXCEPT !.workers[w].state = "SUCCESS",
              !.stories = StoriesOf(o.workers[w].section),
              !.shown = "stories"]

HeadlinesSuccess ==
    /\ op.name = "headlines"
    /\ \E w \in DOMAIN op.workers :
          /\ op.workers[w].state = "RUNNING"
          /\ op' = HandleHeadlinesLoaded(op, w)
    /\ UNCHANGED <<fetch, cacheVars>>

\* on_worker_state_changed, ERROR: _handle_headlines_error mounts the error
\* message; self.stories stays
HeadlinesError ==
    /\ op.name = "headlines"
    /\ \E w \in DOMAIN op.workers :
          /\ op.workers[w].state = "RUNNING"
          /\ op' = [op EXCEPT !.workers[w].state = "ERROR", !.shown = "error"]
    /\ UNCHANGED <<fetch, cacheVars>>

InitHeadlines ==
    /\ fetch = [c \in Calls |-> FetchIdle]
    /\ op = HeadlinesIdle
    /\ CacheUnused

NextHeadlines ==
    \/ HandleSectionsLoaded
    \/ OnSectionSelected
    \/ ActionRefresh
    \/ HeadlinesSuccess
    \/ HeadlinesError

SpecHeadlines == InitHeadlines /\ [][NextHeadlines]_vars

(***************************************************************************)
(* C38 as stated: stale results never win.  When every headlines task has  *)
(* finished and finished well, the stories the app holds and shows are the *)
(* result for the currently selected section, in whatever order the tasks  *)
(* completed.                                                              *)
(***************************************************************************)
AllLoadsSucceeded ==
    /\ op.name = "headlines" /\ op.workers # <<>>
    /\ \A w \in DOMAIN op.workers : op.workers[w].state = "SUCCESS"

C38_CurrentSectionWins ==
    AllLoadsSucceeded =>
        (op.stories = StoriesOf(op.current_section) /\ op.shown = "stories")

(***************************************************************************)
(* Bookmarks.  The app loads the bookmark file once, in on_mount, into     *)
(* self.bookmarks; the bookmarks screen loads it again into its own list   *)
(* each time it is mounted.  Both write the file from their own list.  A   *)
(* bookmark is its url; a story of the main view carries its bookmarked    *)
(* flag.  deleted: the urls deleted in the bookmarks screen and not        *)
(* bookmarked again since.                                                 *)
(***************************************************************************)
BookmarkUrls == {"u1", "u2", "u3"}

RangeOf(seq) == {seq[i] : i \in DOMAIN seq}
Without(seq, u) == SelectSeq(seq, LAMBDA b : b # u)

StoredBookmarks == {<<>>, <<"u1">>, <<"u2", "u1">>, <<"u1", "u2", "u3">>}

\* NewsApp.action_bookmark on the highlighted story u; save_bookmarks
ActionBookmark ==
    /\ op.name = "bookmarks" /\ op.screen = "main"
    /\ \E u \in BookmarkUrls :
          LET now == ~op.bookmarked[u]
              list == IF now THEN Append(op.app_bookmarks, u)
                      ELSE Without(op.app_bookmarks, u)
          IN op' = [op EXCEPT !.bookmarked[u] = now,
                              !.app_bookmarks = list,
                              !.file = list,
                              !.deleted = IF now THEN @ \ {u} ELSE @]
    /\ UNCHANGED <<fetch, cacheVars>>

\* action_show_bookmarks and BookmarksScreen.on_mount: load_bookmarks
ActionShowBookmarks ==
    /\ op.name = "bookmarks" /\ op.screen = "main"
    /\ op' = [op EXCEPT !.screen = "bookmarks", !.screen_bookmarks = op.file]
    /\ UNCHANGED <<fetch, cacheVars>>

\* BookmarksScreen.action_delete_bookmark on the row of u; save_bookmarks
ActionDeleteBookmark ==
    /\ op.name = "bookmarks" /\ op.screen = "bookmarks"
    /\ \E u \in RangeOf(op.screen_bookmarks) :
          LET list == Without(op.screen_bookmarks, u)
          IN op' = [op EXCEPT !.screen_bookmarks = list,
                              !.file = list,
                              !.deleted = @ \cup {u}]
    /\ UNCHANGED <<fetch, cacheVars>>

\* app.pop_screen: back to the main view
PopBookmarksScreen ==
    /\ op.name = "bookmarks" /\ op.screen = "bookmarks"
    /\ op' = [op EXCEPT !.screen = "main", !.screen_bookmarks = <<>>]
    /\ UNCHANGED <<fetch, cacheVars>>

\* NewsApp.on_mount and the first headlines: self.bookmarks is the file and
\* each story is flagged from it
InitBookmarks ==
    /\ fetch = [c \in Calls |-> FetchIdle]
    /\ \E stored \in StoredBookmarks :
          op = [name |-> "bookmarks", screen |-> "main",
                file |-> stored, app_bookmarks |-> stored,
                screen_bookmarks |-> <<>>,
                bookmarked |-> [u \in BookmarkUrls |-> u \in RangeOf(stored)],
                deleted |-> {}]
    /\ CacheUnused

NextBookmarks ==
    \/ ActionBookmark
    \/ ActionShowBookmarks
    \/ ActionDeleteBookmark
    \/ PopBookmarksScreen

SpecBookmarks == InitBookmarks /\ [][NextBookmarks]_vars

(***************************************************************************)
(* C39 as stated: a deleted bookmark stays deleted.  After the bookmark of *)
(* u is deleted in the bookmarks screen, the persisted list does not       *)
(* contain u until u is bookmarked again; toggling another story in the    *)
(* main view does not write u back.                                        *)
(***************************************************************************)
C39_DeletedStaysDeleted ==
    op.name = "bookmarks" => \A u \in op.deleted : u \notin RangeOf(op.file)

====
